---------------------------- MODULE Spec2Model ----------------------------
(***************************************************************************)
(* A model of the console fishing game of src/fishing.py: the progression  *)
(* ledger (balance, inventory, level, discovery), the quest manager, and   *)
(* the save/load gateway.                                                  *)
(*                                                                         *)
(* Numbers.  Weights are kept in tenths of a kilogram (the code rounds     *)
(* every weight to one decimal), catalog prices in cents, and amounts of   *)
(* money as a record [d |-> dollars, m |-> thousandths of a dollar] so     *)
(* that the largest values of the game (a 100,000,000$ upgrade, a          *)
(* 10,000 kg boss at 1000$/kg) stay inside TLC's integers.  Arithmetic is  *)
(* exact decimal arithmetic; round(x, 2) rounds half to even.              *)
(***************************************************************************)
EXTENDS Integers, Sequences, FiniteSets, TLC

(***************************************************************************)
(* Catalog data (src/fishing.py, lines 83-269).                            *)
(***************************************************************************)
\* One catalog entry.  pkey is the key the price is stored under in the
\* source dict ("price" or "base_price"); xp = -1 when the entry has no
\* "xp" key; an absent time_of_day / seasons list is the empty set.
Fish(n, r, k, p, x, tod, ss) ==
  [name |-> n, rarity |-> r, pkey |-> k, price |-> p, xp |-> x,
   time_of_day |-> tod, seasons |-> ss]

SEASONS == << "Spring", "Summer", "Autumn", "Winter" >>

FISH_LAKE ==
  << Fish("Carp", "Common", "price", 100, 5, {}, {"Spring", "Summer"}),
     Fish("Tilapia", "Common", "price", 125, 5, {}, {}),
     Fish("Grass carp", "Uncommon", "price", 500, 7, {}, {}),
     Fish("Catfish", "Rare", "price", 1000, 10, {"Night"}, {}),
     Fish("Snakehead fish", "Legendary", "price", 5000, 50, {}, {}),
     Fish("Bluegill", "Common", "price", 300, 5, {"Day"}, {}),
     Fish("Northern Pike", "Uncommon", "price", 1200, 15, {}, {}),
     Fish("Largemouth Bass", "Common", "price", 800, 10, {}, {}),
     Fish("Rainbow Trout", "Uncommon", "price", 1500, 12, {"Day"}, {}),
     Fish("Yellow Perch", "Common", "price", 500, 7, {}, {"Autumn", "Winter"}),
     Fish("Muskellunge", "Legendary", "price", 4000, 35, {}, {"Summer"}),
     Fish("Walleye", "Common", "price", 700, 9, {}, {}),
     Fish("Lake Sturgeon", "Rare", "price", 2000, 25, {}, {}),
     Fish("White Bass", "Uncommon", "price", 600, 8, {}, {}),
     Fish("Channel Catfish", "Rare", "price", 1800, 20, {}, {}),
     Fish("The Drowned King", "???", "price", 100000, 6000, {}, {}) >>

FISH_SEA ==
  << Fish("Starfish", "Uncommon", "base_price", 125, 7, {}, {}),
     Fish("Tuna", "Rare", "base_price", 200, 10, {}, {}),
     Fish("Shark", "Rare", "base_price", 700, 10, {}, {}),
     Fish("Whale", "Legendary", "base_price", 500, 50, {}, {}),
     Fish("Flying Fish", "Uncommon", "base_price", 250, 10, {}, {}),
     Fish("Swordfish", "Rare", "base_price", 1800, 30, {}, {}),
     Fish("Electric Eel", "Rare", "base_price", 2200, 30, {}, {}),
     Fish("Lionfish", "Epic", "base_price", 3500, 100, {}, {}),
     Fish("Giant Blue Marlin", "Legendary", "base_price", 5500, 1000, {}, {}),
     Fish("Sunfish", "Mythical", "base_price", 7000, 1000, {}, {}),
     Fish("Dolphin", "Uncommon", "base_price", 1500, 20, {}, {}),
     Fish("Barracuda", "Rare", "base_price", 3000, 40, {}, {}),
     Fish("Clownfish", "Common", "base_price", 600, 8, {}, {}),
     Fish("Mahi-Mahi", "Rare", "base_price", 2500, 30, {}, {}),
     Fish("Blue Marlin", "Legendary", "base_price", 9000, 100, {}, {}),
     Fish("Kingfish", "Uncommon", "base_price", 1800, 22, {}, {}),
     Fish("Emperor Angelfish", "Rare", "base_price", 3500, 45, {}, {}),
     Fish("Grouper", "Uncommon", "base_price", 1200, 16, {}, {}),
     Fish("Triggerfish", "Rare", "base_price", 2000, 25, {}, {}),
     Fish("Napoleon Wrasse", "Legendary", "base_price", 6000, 80, {}, {}),
     Fish("Kraken", "???", "base_price", 100000, 7000, {}, {}) >>

FISH_BATHYAL ==
  << Fish("Deep-sea Dragonfish", "Rare", "base_price", 3500, 45, {}, {}),
     Fish("Lanternfish", "Uncommon", "base_price", 1500, 18, {}, {}),
     Fish("Anglerfish", "Uncommon", "base_price", 2000, 25, {}, {}),
     Fish("Black Swallower", "Legendary", "base_price", 9000, 120, {}, {}),
     Fish("Goblin Shark", "Legendary", "base_price", 5000, 70, {}, {}),
     Fish("Cusk Eel", "Rare", "base_price", 2500, 30, {}, {}),
     Fish("Viperfish", "Rare", "base_price", 3000, 40, {}, {}),
     Fish("Giant Squid", "Legendary", "base_price", 8000, 100, {}, {}),
     Fish("Brilliant Lanternfish", "Rare", "base_price", 1800, 22, {}, {}),
     Fish("Swallowtail", "Uncommon", "base_price", 1200, 15, {}, {}),
     Fish("Ancient Leviathan", "???", "base_price", 100000, 8000, {}, {}) >>

FISH_ABYSS_TRENCH ==
  << Fish("Lanternfish", "Common", "price", 1500, -1, {}, {}),
     Fish("Angler Leviathan", "Legendary", "price", 10000, 150, {}, {}),
     Fish("Giant Squid", "Legendary", "price", 7500, 100, {}, {}),
     Fish("Ancient Key", "Legendary", "price", 2500, -1, {}, {}),
     Fish("Abyssal Octopus", "Rare", "price", 5000, 60, {}, {}),
     Fish("Cusk Eel", "Rare", "price", 4000, 50, {}, {}),
     Fish("Black Swallower", "Legendary", "price", 8000, 120, {}, {}),
     Fish("Abyssal Dragonfish", "Rare", "price", 6000, 70, {}, {}),
     Fish("Swallower Eel", "Rare", "price", 5000, 60, {}, {}),
     Fish("Abyssal Squid", "Rare", "price", 7000, 80, {}, {}),
     Fish("Giant Anglerfish", "Legendary", "price", 10000, 130, {}, {}),
     Fish("Benthic Eel", "Uncommon", "price", 3000, 40, {}, {}),
     Fish("Abyssal Leviathan", "Legendary", "price", 20000, 350, {}, {}),
     Fish("Trench Dragonfish", "Rare", "price", 8000, 120, {}, {}),
     Fish("Bioluminescent Squid", "Rare", "price", 5000, 75, {}, {}),
     Fish("Ghost Shark", "Legendary", "price", 15000, 200, {}, {}),
     Fish("Colossal Squid", "Mythical", "price", 25000, 400, {}, {}),
     Fish("Abyssal Angler", "Legendary", "price", 17500, 250, {}, {}),
     Fish("Barreleye Fish", "Rare", "price", 4000, 55, {}, {}),
     Fish("Abyssal Cusk Eel", "Common", "price", 2000, 30, {}, {}),
     Fish("Abyssal Lanternfish", "Uncommon", "price", 2500, 40, {}, {}),
     Fish("Giant Fangtooth", "Legendary", "price", 10000, 150, {}, {}),
     Fish("Abyss King", "???", "price", 100000, 9500, {}, {}) >>

FISH_ANCIENT_SEA ==
  << Fish("Mosasaurus", "Legendary", "price", 35000, 500, {}, {}),
     Fish("Dunkleosteus", "Mythical", "price", 50000, 700, {}, {}),
     Fish("Megalodon", "Mythical", "price", 100000, 1500, {}, {}),
     Fish("Leedsichthys", "Exotic", "price", 25000, 300, {}, {}),
     Fish("Shonisaurus", "Legendary", "price", 30000, 400, {}, {}),
     Fish("Ichthyosaurus", "Legendary", "price", 20000, 250, {}, {}),
     Fish("Tylosaurus", "Legendary", "price", 25000, 300, {}, {}),
     Fish("Pliosaurus", "Legendary", "price", 35000, 500, {}, {}),
     Fish("Tyrannosaurus Rex", "Mythical", "price", 60000, 800, {}, {}),
     Fish("Sharksaurus", "Legendary", "price", 45000, 600, {}, {}),
     Fish("Acanthodes", "Exotic", "price", 30000, 350, {}, {}),
     Fish("Godfish Eternus", "???", "price", 100000, 10000, {}, {}) >>

FISH_MYSTIC_SPRING ==
  << Fish("Prism Trout", "Rare", "price", 1500, 10, {}, {}),
     Fish("Spirit Koi", "Epic", "price", 2500, 25, {}, {}),
     Fish("Phoenix Scale Carp", "Mythical", "price", 5000, 40, {}, {}),
     Fish("Moonlit Koi", "Mythical", "price", 10000, 150, {}, {}),
     Fish("Water Sprite", "Epic", "price", 7500, 100, {}, {}),
     Fish("Crystal Trout", "Legendary", "price", 12000, 200, {}, {}),
     Fish("Spirit Nymph", "Epic", "price", 9000, 120, {}, {}),
     Fish("Water Dragonfish", "Rare", "price", 4500, 60, {}, {}),
     Fish("Moonbeam Bass", "Rare", "price", 4000, 50, {}, {}),
     Fish("Mystic Swallower", "Legendary", "price", 15000, 250, {}, {}),
     Fish("Luminous Catfish", "Uncommon", "price", 2500, 35, {}, {}),
     Fish("Frostfin Koi", "Rare", "price", 5000, 70, {}, {}),
     Fish("Glimmering Angelfish", "Epic", "price", 6000, 80, {}, {}),
     Fish("Mystic Dragonfish", "???", "price", 100000, 9000, {}, {}) >>


ZONE_BOSS_MAP ==
  [z \in {"Lake", "Sea", "Bathyal", "Mystic Spring", "Abyss Trench", "Ancient Sea"} |->
     CASE z = "Lake"          -> "The Drowned King"
       [] z = "Sea"           -> "Kraken"
       [] z = "Bathyal"       -> "Ancient Leviathan"
       [] z = "Mystic Spring" -> "Mystic Dragonfish"
       [] z = "Abyss Trench"  -> "Abyss King"
       [] z = "Ancient Sea"   -> "Godfish Eternus"]

\* The zones in the order of ZONE_FISH_MAP's keys.
ZONE_ORDER ==
  << "Lake", "Sea", "Bathyal", "Mystic Spring", "Abyss Trench", "Ancient Sea" >>

ZONES == {ZONE_ORDER[i] : i \in 1..Len(ZONE_ORDER)}

ZONE_FISH_MAP ==
  [z \in ZONES |->
     CASE z = "Lake"          -> FISH_LAKE
       [] z = "Sea"           -> FISH_SEA
       [] z = "Bathyal"       -> FISH_BATHYAL
       [] z = "Mystic Spring" -> FISH_MYSTIC_SPRING
       [] z = "Abyss Trench"  -> FISH_ABYSS_TRENCH
       [] z = "Ancient Sea"   -> FISH_ANCIENT_SEA]

RARITY_BASE_REWARD ==
  [r \in {"Common", "Uncommon", "Rare", "Epic", "Legendary", "Mythical", "Exotic"} |->
     CASE r = "Common"    -> 10
       [] r = "Uncommon"  -> 20
       [] r = "Rare"      -> 40
       [] r = "Epic"      -> 80
       [] r = "Legendary" -> 160
       [] r = "Mythical"  -> 320
       [] r = "Exotic"    -> 640]

EXOTIC_FISH_FULL_MOON ==
  << Fish("Phantom Shark", "Exotic", "price", 10000, 1000, {}, {}),
     Fish("Shadowfin", "Exotic", "price", 10000, 1000, {}, {}),
     Fish("Abyssal Ghost", "Exotic", "price", 10000, 1000, {}, {}) >>

\* Multipliers in hundredths (1.25 -> 125).
SEA_PRICE_MULTIPLIER ==
  [r \in {"Uncommon", "Rare", "Epic", "Legendary", "Mythical"} |->
     CASE r = "Uncommon"  -> 125
       [] r = "Rare"      -> 200
       [] r = "Epic"      -> 300
       [] r = "Legendary" -> 500
       [] r = "Mythical"  -> 700]

\* Shop prices in whole dollars.
SHOP_ITEMS ==
  << [name |-> "Boat",                 price |-> 25000],
     [name |-> "Submarine",            price |-> 1000000],
     [name |-> "Torch",                price |-> 5000],
     [name |-> "Submarine Upgrade 01", price |-> 10000000],
     [name |-> "Submarine Upgrade 02", price |-> 100000000] >>

\* The elements of a sequence.
Range(s) == {s[i] : i \in 1..Len(s)}

(***************************************************************************)
(* Money: exact decimal amounts, [d |-> dollars, m |-> thousandths].       *)
(***************************************************************************)
Dollars(n) == [d |-> n, m |-> 0]

MoneyAdd(a, b) ==
  LET s == a.m + b.m
  IN  [d |-> a.d + b.d + (s \div 1000), m |-> s % 1000]

MoneyLess(a, b) == a.d < b.d \/ (a.d = b.d /\ a.m < b.m)

\* weight * price, for a weight w in tenths of a kg and a price p in cents.
WeightTimesPrice(w, p) ==
  LET wk == w \div 10
      wt == w % 10
      pd == p \div 100
      pc == p % 100
      rest == wk * pc * 10 + wt * pd * 100 + wt * pc
  IN  [d |-> wk * pd + (rest \div 1000), m |-> rest % 1000]

\* round(x, 2): to the nearest cent, a tie going to the even cent.
Round2(a) ==
  LET c == a.m \div 10
      r == a.m % 10
      up == r > 5 \/ (r = 5 /\ c % 2 = 1)
      c2 == IF up THEN c + 1 ELSE c
  IN  [d |-> a.d + (c2 \div 100), m |-> (c2 % 100) * 10]

(***************************************************************************)
(* The state of a game session (Game.__init__, lines 416-441).             *)
(***************************************************************************)
VARIABLES
  balance,                   \* Money
  inventory,                 \* sequence of caught items
  has_submarine, has_boat, has_torch,
  has_abyss_trench_access, has_ancient_sea_access,
  has_ancient_key, has_floating_key,
  current_hour, current_day, event,
  level, xp,
  discovery,                 \* zone -> name -> [count, maxWeight, maxValue]
  current_zone, current_fish_list, current_zone_catch_length,
  zone_quests,               \* QuestManager.zone_quests: zone -> sequence of Quest
  save_file,                 \* the stored document, or NoFile
  session,                   \* "running", "terminated" (exit() in load_game), "exited"
  last,                      \* history: the last operation, its inputs and what it read
  catch_log,                 \* history: the catches reported so far, in order
  snapshot                   \* history: the persisted fields as they were at the last save_game

ledgerVars == << balance, inventory >>
levelVars  == << level, xp >>
flagVars   == << has_submarine, has_boat, has_torch, has_abyss_trench_access,
                 has_ancient_sea_access, has_ancient_key, has_floating_key >>
clockVars  == << current_hour, current_day, event >>
zoneVars   == << current_zone, current_fish_list, current_zone_catch_length >>
fileVars   == << save_file, snapshot >>

vars == << balance, inventory, has_submarine, has_boat, has_torch,
           has_abyss_trench_access, has_ancient_sea_access, has_ancient_key,
           has_floating_key, current_hour, current_day, event, level, xp,
           discovery, current_zone, current_fish_list, current_zone_catch_length,
           zone_quests, save_file, session, last, catch_log, snapshot >>

None == "None"
NoFile == [absent |-> TRUE]

(***************************************************************************)
(* Level and experience (lines 499-545).                                   *)
(***************************************************************************)
calculate_xp_for_level(l) == IF l = 0 THEN 100 ELSE 100 + (l * 100)

\* The while loop of check_level_up; returned = the early return at the cap.
RECURSIVE level_loop(_, _)
level_loop(l, x) ==
  IF x >= calculate_xp_for_level(l) /\ l < 100
  THEN IF l + 1 >= 100
       THEN [level |-> 100, xp |-> 0, returned |-> TRUE]
       ELSE level_loop(l + 1, x - calculate_xp_for_level(l))
  ELSE [level |-> l, xp |-> x, returned |-> FALSE]

\* A check_level_up that takes one step only and never loops.
check_level_up_once(l, x) ==
  IF x >= calculate_xp_for_level(l) /\ l < 100
  THEN IF l + 1 >= 100
       THEN [level |-> 100, xp |-> 0]
       ELSE [level |-> l + 1, xp |-> x - calculate_xp_for_level(l)]
  ELSE [level |-> l, xp |-> IF l >= 100 THEN 0 ELSE x]

\* A check_level_up that drops the surplus of the last step.
check_level_up_drop(l, x) ==
  LET r == level_loop(l, x)
  IN  [level |-> r.level, xp |-> IF r.level > l \/ r.level >= 100 THEN 0 ELSE r.xp]

\* A check_level_up that keeps the surplus only when a single level is gained.
check_level_up_lossy(l, x) ==
  LET r == level_loop(l, x)
  IN  [level |-> r.level,
       xp |-> IF r.level > l + 1 \/ r.level >= 100 THEN 0 ELSE r.xp]

\* check_level_up on (level, xp): the level and xp it leaves.
check_level_up(l, x) ==
  LET r == level_loop(l, x)
  IN  IF r.returned THEN [level |-> r.level, xp |-> r.xp]
      ELSE IF r.level >= 100 THEN [level |-> r.level, xp |-> 0]
      ELSE [level |-> r.level, xp |-> r.xp]

get_xp_by_rarity(rarity) ==
  CASE rarity = "Common"    -> 5
    [] rarity = "Uncommon"  -> 10
    [] rarity = "Rare"      -> 30
    [] rarity = "Epic"      -> 100
    [] rarity = "Legendary" -> 1000
    [] rarity = "Mythical"  -> 1000
    [] rarity = "Exotic"    -> 100000
    [] OTHER                -> 0

\* The xp of the zone's boss entry (boss_entry.get("xp", 0), lines 644-645).
BossXp(zone) ==
  LET hits == {i \in 1..Len(ZONE_FISH_MAP[zone]) :
                 ZONE_FISH_MAP[zone][i].name = ZONE_BOSS_MAP[zone]}
  IN  IF hits = {} THEN 0
      ELSE LET e == ZONE_FISH_MAP[zone][CHOOSE i \in hits : \A j \in hits : i <= j]
           IN  IF e.xp < 0 THEN 0 ELSE e.xp

\* Every amount one catch can add to xp: by rarity (line 1053) or a boss's (line 655).
XpGains ==
  {get_xp_by_rarity(r) : r \in {"Common", "Uncommon", "Rare", "Epic", "Legendary",
                                "Mythical", "Exotic", "???"}}
    \cup {BossXp(z) : z \in ZONES}

(***************************************************************************)
(* Quests (Quest and QuestManager, lines 271-410).                         *)
(***************************************************************************)
Quest(quest_type, zone, target_fish, rarity, amount, progress, reward) ==
  [quest_type |-> quest_type, zone |-> zone, target_fish |-> target_fish,
   rarity |-> rarity, amount |-> amount, progress |-> progress, reward |-> reward]

is_completed(q) == q.progress >= q.amount

\* ZONE_FISH_MAP.get(zone, [])
ZoneFish(zone) == IF zone \in ZONES THEN ZONE_FISH_MAP[zone] ELSE << >>

\* The candidates of generate_quest: the zone's catalog without boss and Exotic entries.
QuestFishList(zone) ==
  SelectSeq(ZoneFish(zone), LAMBDA f : f.rarity \notin {"???", "Exotic"})

QuestRarities(zone) == {f.rarity : f \in Range(QuestFishList(zone))}

\* base_values.get(rarity, 0) of generate_quest (lines 349-358).
QuestBaseValue(rarity) ==
  CASE rarity = "Common"    -> 10
    [] rarity = "Uncommon"  -> 20
    [] rarity = "Rare"      -> 100
    [] rarity = "Epic"      -> 175
    [] rarity = "Mythical"  -> 200
    [] rarity = "Legendary" -> 500
    [] rarity = "Boss"      -> 10000
    [] OTHER                -> 0

\* The random draws of one generate_quest call: random.choice([1, 2]),
\* random.randint(1, 20), and the fish (kind 1) or the rarity (kind 2) chosen.
QuestDraws(zone) ==
  {[quest_type |-> 1, amount |-> a, fish |-> i, rarity |-> None] :
      a \in 1..20, i \in 1..Len(QuestFishList(zone))}
  \cup
  {[quest_type |-> 2, amount |-> a, fish |-> 0, rarity |-> r] :
      a \in 1..20, r \in QuestRarities(zone)}

Min(a, b) == IF a <= b THEN a ELSE b

\* A generate_quest that forgets to cap the amount.
generate_quest_nocap(zone, dr) ==
  LET fish_list == QuestFishList(zone)
      rarity == IF dr.quest_type = 1 THEN fish_list[dr.fish].rarity ELSE dr.rarity
      target_fish == IF dr.quest_type = 1 THEN fish_list[dr.fish].name ELSE None
  IN  Quest(dr.quest_type, zone, target_fish, rarity, dr.amount, 0,
            QuestBaseValue(rarity) * dr.amount)

\* generate_quest(zone) for the draws dr.
generate_quest(zone, dr) ==
  LET fish_list == QuestFishList(zone)
  IN  IF fish_list = << >>
      THEN Quest(1, zone, "Carp", None, 1, 0, 10)
      ELSE LET rarity == IF dr.quest_type = 1 THEN fish_list[dr.fish].rarity
                         ELSE dr.rarity
               target_fish == IF dr.quest_type = 1 THEN fish_list[dr.fish].name
                              ELSE None
               max_amount == IF rarity = "Legendary" THEN 5
                             ELSE IF rarity = "Boss" THEN 1 ELSE 15
               amount == Min(dr.amount, max_amount)
           IN  Quest(dr.quest_type, zone, target_fish, rarity, amount, 0,
                     QuestBaseValue(rarity) * amount)

\* The reward repair of QuestManager.__init__ for one loaded quest (lines 300-310).
RepairReward(zone, q) ==
  IF q.reward # 0 THEN q
  ELSE LET fish_list == ZoneFish(zone)
           hits == {i \in 1..Len(fish_list) : fish_list[i].name = q.target_fish}
           found == q.quest_type = 1 /\ q.rarity \in {None, ""} /\ hits # {}
           rarity == IF found
                     THEN fish_list[CHOOSE i \in hits : \A j \in hits : i <= j].rarity
                     ELSE q.rarity
           base == IF rarity \in DOMAIN RARITY_BASE_REWARD
                   THEN RARITY_BASE_REWARD[rarity] ELSE 10
       IN  [q EXCEPT !.rarity = rarity, !.reward = base * q.amount]

\* The first n elements of a sequence (s[:n]).
Take(s, n) == SubSeq(s, 1, Min(n, Len(s)))

\* A constructor that fills short lists but does not trim long ones.
QuestManagerInitNoTrim(quests_data, draws) ==
  [zone \in (DOMAIN quests_data) \cup ZONES |->
     LET loaded == IF zone \in DOMAIN quests_data
                   THEN [i \in 1..Len(quests_data[zone]) |->
                           RepairReward(zone, quests_data[zone][i])]
                   ELSE << >>
     IN  IF zone \notin ZONES THEN loaded
         ELSE [i \in 1..(IF Len(loaded) > 10 THEN Len(loaded) ELSE 10) |->
                 IF i <= Len(loaded) THEN loaded[i]
                 ELSE generate_quest(zone, draws[zone][i])]]

\* QuestManager.__init__(quests_data): the loaded lists, rewards repaired, and
\* every zone of ZONE_FISH_MAP trimmed to 10 and filled up to 10.  draws[zone][i]
\* are the draws of the generate_quest call that fills slot i of zone.
QuestManagerInit(quests_data, draws) ==
  [zone \in (DOMAIN quests_data) \cup ZONES |->
     LET loaded == IF zone \in DOMAIN quests_data
                   THEN [i \in 1..Len(quests_data[zone]) |->
                           RepairReward(zone, quests_data[zone][i])]
                   ELSE << >>
     IN  IF zone \notin ZONES THEN loaded
         ELSE LET kept == Take(loaded, 10)
              IN  [i \in 1..10 |->
                     IF i <= Len(kept) THEN kept[i]
                     ELSE generate_quest(zone, draws[zone][i])]]

get_quests_for_zone(zq, zone_name) ==
  IF zone_name \in DOMAIN zq THEN zq[zone_name] ELSE << >>

\* A finish_quest that does not look at the quest's progress.
finish_quest_unchecked(zq, zone, quest_index, dr) ==
  LET quests == get_quests_for_zone(zq, zone)
  IN  IF quest_index < 0 \/ quest_index >= Len(quests)
      THEN [reward |-> 0, zone_quests |-> zq]
      ELSE [reward |-> quests[quest_index + 1].reward,
            zone_quests |-> [zq EXCEPT ![zone][quest_index + 1] = generate_quest(zone, dr)]]

\* finish_quest(zone, quest_index), quest_index counted from 0 as in the code:
\* the reward returned and the quest lists it leaves; dr are the draws of the
\* generate_quest call that refills the slot.
finish_quest(zq, zone, quest_index, dr) ==
  LET quests == get_quests_for_zone(zq, zone)
  IN  IF quest_index < 0 \/ quest_index >= Len(quests)
      THEN [reward |-> 0, zone_quests |-> zq]
      ELSE IF ~is_completed(quests[quest_index + 1])
      THEN [reward |-> 0, zone_quests |-> zq]
      ELSE [reward |-> quests[quest_index + 1].reward,
            zone_quests |-> [zq EXCEPT ![zone][quest_index + 1] = generate_quest(zone, dr)]]

\* One quest after a catch of (fish_name, rarity) in its zone (lines 405-410).
QuestAfterCatch(q, fish_name, rarity) ==
  IF q.quest_type = 1 /\ q.target_fish = fish_name /\ q.progress < q.amount
  THEN [q EXCEPT !.progress = q.progress + 1]
  ELSE IF q.quest_type = 2 /\ q.rarity = rarity /\ q.progress < q.amount
  THEN [q EXCEPT !.progress = q.progress + 1]
  ELSE q

\* An update_quest_progress that counts past the required amount.
update_quest_progress_nolimit(zq, player_zone, fish_name, rarity) ==
  IF player_zone \notin DOMAIN zq THEN zq
  ELSE [zq EXCEPT ![player_zone] =
          [i \in 1..Len(zq[player_zone]) |->
             LET q == zq[player_zone][i]
             IN  IF (q.quest_type = 1 /\ q.target_fish = fish_name)
                    \/ (q.quest_type = 2 /\ q.rarity = rarity)
                 THEN [q EXCEPT !.progress = q.progress + 1] ELSE q]]

\* An update_quest_progress that goes through the quests of every zone.
update_quest_progress_allzones(zq, player_zone, fish_name, rarity) ==
  [z \in DOMAIN zq |->
     [i \in 1..Len(zq[z]) |-> QuestAfterCatch(zq[z][i], fish_name, rarity)]]

\* update_quest_progress(player_zone, fish_name, rarity) (lines 403-410).
update_quest_progress(zq, player_zone, fish_name, rarity) ==
  IF player_zone \notin DOMAIN zq THEN zq
  ELSE [zq EXCEPT ![player_zone] =
          [i \in 1..Len(zq[player_zone]) |->
             QuestAfterCatch(zq[player_zone][i], fish_name, rarity)]]

(***************************************************************************)
(* Weights and prices of a catch (lines 698-758 and 1034-1043).            *)
(***************************************************************************)
\* generate_weight(name, rarity) followed by round(weight, 1): the range of the
\* result in tenths of a kg; step is 10 for random.randint (whole kilograms) and 1
\* for random.uniform.
WeightRange(name, rarity) ==
  LET int(a, b) == [lo |-> a * 10, hi |-> b * 10, step |-> 10]
      flt(a, b) == [lo |-> a, hi |-> b, step |-> 1]
  IN  CASE name = "Shark"               -> int(50, 1000)
        [] name = "Whale"               -> int(100, 10000)
        [] name = "Tuna"                -> int(10, 75)
        [] name = "Flying Fish"         -> flt(10, 30)
        [] name = "Swordfish"           -> int(100, 300)
        [] name = "Electric Eel"        -> int(10, 50)
        [] name = "Lionfish"            -> flt(20, 60)
        [] name = "Giant Blue Marlin"   -> int(300, 800)
        [] name = "Sunfish"             -> int(500, 1500)
        [] name = "Deep-sea Dragonfish" -> int(5, 20)
        [] name = "Lanternfish"         -> int(5, 15)
        [] name = "Anglerfish"          -> int(10, 25)
        [] name = "Black Swallower"     -> int(2, 10)
        [] name = "Goblin Shark"        -> int(50, 100)
        [] name = "Angler Leviathan"    -> int(15, 100)
        [] name = "Giant Squid"         -> int(1000, 5000)
        [] name = "Ancient Key"         -> int(100, 500)
        [] name \in {"Mosasaurus", "Dunkleosteus"} -> int(1000, 3000)
        [] name = "Megalodon"           -> int(10000, 50000)
        [] name = "Leedsichthys"        -> int(100000, 1000000)
        [] name = "Prism Trout"         -> int(20, 80)
        [] name = "Spirit Koi"          -> int(20, 150)
        [] name = "Phoenix Scale Carp"  -> int(100, 300)
        [] OTHER ->
             CASE rarity = "Common"     -> flt(5, 25)
               [] rarity = "Uncommon"   -> flt(10, 40)
               [] rarity = "Rare"       -> flt(20, 60)
               [] rarity = "Epic"       -> flt(30, 80)
               [] rarity = "Legendary"  -> flt(50, 120)
               [] rarity = "Mythical"   -> flt(80, 200)
               [] OTHER                 -> flt(10, 30)

\* The weights of a range the model draws: its two ends.
WeightSamples(range) == {range.lo, range.hi}

\* round(base_price * multiplier, 2) in cents, for a price in cents and a
\* multiplier in hundredths.
RoundedProduct(p, mu) ==
  LET q == (p * mu) \div 100
      r == (p * mu) % 100
  IN  IF r > 50 \/ (r = 50 /\ q % 2 = 1) THEN q + 1 ELSE q

\* The price obtain_fish attaches to a normal catch of fish in zone, in cents.
CatchPrice(zone, fish) ==
  IF zone = "Sea"
  THEN RoundedProduct(fish.price,
                      IF fish.rarity \in DOMAIN SEA_PRICE_MULTIPLIER
                      THEN SEA_PRICE_MULTIPLIER[fish.rarity] ELSE 100)
  ELSE fish.price

\* An inventory entry (lines 1045-1051 and 646-652).
Item(name, rarity, price, weight, zone) ==
  [name |-> name, rarity |-> rarity, price |-> price, weight |-> weight, zone |-> zone]

\* weight * price of an inventory entry, exact.
ItemWorth(f) == WeightTimesPrice(f.weight, f.price)

\* round(weight * price, 2): the value obtain_fish hands to update_discovery.
ItemValue(f) == Round2(ItemWorth(f))

\* The items a normal catch of catalog entry fish in zone can add (weights sampled).
NormalCatches(zone, fish) ==
  {Item(fish.name, fish.rarity, CatchPrice(zone, fish), w, zone) :
     w \in WeightSamples(WeightRange(fish.name, fish.rarity))}

\* The items a won boss encounter in zone can add: weight = randint(1000, 10000),
\* price 1000 (lines 643-652).
BossCatches(zone) ==
  {Item(ZONE_BOSS_MAP[zone], "???", 100000, w, zone) :
     w \in WeightSamples([lo |-> 10000, hi |-> 100000, step |-> 10])}

\* The items a full-moon catch can add: weight = randint(1000, 100000) (lines 1026-1028).
FullMoonCatches(zone) ==
  {Item(EXOTIC_FISH_FULL_MOON[i].name, EXOTIC_FISH_FULL_MOON[i].rarity,
        EXOTIC_FISH_FULL_MOON[i].price, w, zone) :
     i \in 1..Len(EXOTIC_FISH_FULL_MOON),
     w \in WeightSamples([lo |-> 10000, hi |-> 1000000, step |-> 10])}

(***************************************************************************)
(* Construction of a session without a save file (lines 416-441).          *)
(***************************************************************************)
\* Bounds of the model.
NumSeeds == 2

ZoneIndex(zone) == CHOOSE i \in 1..Len(ZONE_ORDER) : ZONE_ORDER[i] = zone

RarityOrder ==
  << "Common", "Uncommon", "Rare", "Epic", "Legendary", "Mythical" >>

ZoneRaritySeq(zone) ==
  SelectSeq(RarityOrder, LAMBDA r : r \in QuestRarities(zone))

AmountPattern == << 1, 2, 20, 3, 1, 7, 15, 2, 5, 1 >>

\* The draws that fill slot i of zone when the manager is constructed: the 60
\* draws of one construction are taken from NumSeeds fixed draw sequences (each one
\* a sequence the random generator can produce); every later generate_quest call
\* draws freely from QuestDraws.
SeedDraw(seed, zone, i) ==
  LET n == 7 * i + 3 * ZoneIndex(zone) + 5 * seed
      quest_type == 1 + ((i + ZoneIndex(zone) + seed) % 2)
  IN  [quest_type |-> quest_type,
       amount |-> AmountPattern[1 + ((i + ZoneIndex(zone) + seed) % 10)],
       fish |-> IF quest_type = 1 THEN 1 + (n % Len(QuestFishList(zone))) ELSE 0,
       rarity |-> IF quest_type = 2
                  THEN ZoneRaritySeq(zone)[1 + (n % Len(ZoneRaritySeq(zone)))]
                  ELSE None]

SeedDraws(seed) == [zone \in ZONES |-> [i \in 1..10 |-> SeedDraw(seed, zone, i)]]

\* The fields __init__ sets before load_game is called (lines 419-438).
DefaultLedger ==
  /\ balance = Dollars(100)
  /\ inventory = << >>
  /\ discovery = << >>

DefaultFlags ==
  /\ has_submarine = FALSE
  /\ has_boat = FALSE
  /\ has_torch = FALSE
  /\ has_abyss_trench_access = FALSE
  /\ has_ancient_sea_access = FALSE
  /\ has_ancient_key = FALSE
  /\ has_floating_key = FALSE

DefaultClock ==
  /\ current_hour = 0
  /\ current_day = 0
  /\ event = "Nothing"

DefaultLevel ==
  /\ level = 0
  /\ xp = 0

DefaultZone ==
  /\ current_zone = "Lake"
  /\ current_fish_list = "FISH_LAKE"
  /\ current_zone_catch_length = 5

Defaults ==
  DefaultLedger /\ DefaultFlags /\ DefaultClock /\ DefaultLevel /\ DefaultZone

\* What a session without a save file holds besides the fields of Defaults.
FreshRest(seed) ==
  /\ zone_quests = QuestManagerInit(<< >>, SeedDraws(seed))
  /\ save_file = NoFile
  /\ session = "running"
  /\ last = [op |-> "init"]
  /\ catch_log = << >>
  /\ snapshot = None

\* Game() in a directory without a save file.
InitFresh(seed) == Defaults /\ FreshRest(seed)

(***************************************************************************)
(* Experience gains: xp += gain; check_level_up() (lines 655-656 and       *)
(* 1053-1054).                                                             *)
(***************************************************************************)
\* One gain of g; h is what the history variable keeps of it.
Gain(g, h) ==
  /\ session = "running"
  /\ LET r == check_level_up(level, xp + g)
     IN  /\ level' = r.level
         /\ xp' = r.xp
  /\ last' = h
  /\ UNCHANGED << ledgerVars, flagVars, clockVars, zoneVars, fileVars,
                  discovery, zone_quests, session, catch_log >>

\* A gain in a running game; the history keeps whether it was made at the cap, and
\* the experience gained since the game began for as long as the level stays below
\* the cap (0 from then on).
GainXp(g) ==
  Gain(g, [op |-> "gain", at_cap |-> (level = 100 /\ g > 0),
           total |-> IF check_level_up(level, xp + g).level >= 100 THEN 0
                     ELSE (IF last.op = "gain" THEN last.total ELSE 0) + g])

InitLevel == InitFresh(1)

NextLevel == \E g \in XpGains : GainXp(g)

\* Any sequence of gains from a fresh game.
SpecLevel == InitLevel /\ [][NextLevel]_vars

\* C1: after any sequence of experience gains, each followed by check_level_up,
\* 0 <= level <= 100; below the cap xp is below the requirement 100 + level*100
\* of the current level; at the cap xp is 0.
C1_LevelInvariant ==
  /\ level \in 0..100
  /\ level < 100 => (xp >= 0 /\ xp < 100 + level * 100)
  /\ level = 100 => xp = 0

\* A positive gain made at level 100 has been discarded.
C1_Witness == last.op = "gain" /\ last.at_cap /\ level = 100 /\ xp = 0

\* The experience a game holds at level l when the single gain is fed to it:
\* none, one small catch, and one small catch short of the requirement (every
\* multiple of 5 below the requirement is reached by Common catches alone).
XpSamples(l) == {0, 5, calculate_xp_for_level(l) - 5}

\* One gain fed once; the history keeps the gain and the level and xp before it.
FeedXp(g) ==
  /\ last.op = "init"
  /\ Gain(g, [op |-> "feed", gain |-> g, level |-> level, xp |-> xp])

InitGain ==
  /\ DefaultLedger /\ DefaultFlags /\ DefaultClock /\ DefaultZone /\ FreshRest(1)
  /\ level \in 0..99
  /\ xp \in XpSamples(level)

NextGain == \E g \in XpGains : FeedXp(g)

\* One gain fed to a game at any level below the cap.
SpecGain == InitGain /\ [][NextGain]_vars

\* C2 as stated: a gain that reaches the requirement of the current level raises
\* the level by exactly one step and keeps the surplus (zeroed at the cap).
C2_ExactlyOneStep ==
  (last.op = "feed" /\ last.level < 100
     /\ last.xp + last.gain >= calculate_xp_for_level(last.level))
  => /\ level = last.level + 1
     /\ level < 100 => xp = last.xp + last.gain - calculate_xp_for_level(last.level)
     /\ level = 100 => xp = 0

\* The sum of the requirements of the levels a..b-1.
RECURSIVE RequirementSum(_, _)
RequirementSum(a, b) ==
  IF a >= b THEN 0 ELSE (100 + a * 100) + RequirementSum(a + 1, b)

\* C2 as amended: such a gain raises the level by at least one step, one step for
\* every requirement the accumulated experience covers in turn, and by exactly one
\* when the surplus is below the next requirement; below the cap the surplus left
\* after the last step is kept, at the cap it is zeroed.
C2_StepsAndSurplus ==
  (last.op = "feed" /\ last.level < 100
     /\ last.xp + last.gain >= calculate_xp_for_level(last.level))
  => LET total == last.xp + last.gain
         surplus == total - calculate_xp_for_level(last.level)
     IN  /\ level >= last.level + 1
         /\ level < 100 =>
              /\ xp = total - RequirementSum(last.level, level)
              /\ xp >= 0 /\ xp < 100 + level * 100
         /\ level = 100 => (xp = 0 /\ total >= RequirementSum(last.level, 100))
         /\ (last.level + 1 < 100 /\ surplus < 100 + (last.level + 1) * 100)
              => (level = last.level + 1 /\ xp = surplus)
         /\ last.level + 1 = 100 => (level = 100 /\ xp = 0)

\* One gain has raised the level by more than one step and left a surplus.
C2_Witness ==
  last.op = "feed" /\ level > last.level + 1 /\ level < 100 /\ xp > 0

(***************************************************************************)
(* The discovery log (lines 578-591).                                      *)
(***************************************************************************)
NoEntry == [count |-> 0, maxWeight |-> 0, maxValue |-> Dollars(0)]

\* discovery[zone][fish_name] where it exists, the entry setdefault creates otherwise.
EntryOf(d, zone, fish_name) ==
  IF zone \in DOMAIN d /\ fish_name \in DOMAIN d[zone] THEN d[zone][fish_name]
  ELSE NoEntry

HasEntry(d, zone, fish_name) == zone \in DOMAIN d /\ fish_name \in DOMAIN d[zone]

\* An update_discovery that stores the new weight and value instead of the maxima.
update_discovery_overwrite(d, zone, fish_name, weight, value) ==
  LET zone_data == IF zone \in DOMAIN d THEN d[zone] ELSE << >>
      entry == [count |-> EntryOf(d, zone, fish_name).count + 1,
                maxWeight |-> weight, maxValue |-> value]
  IN  [z \in (DOMAIN d) \cup {zone} |->
         IF z = zone
         THEN [n \in (DOMAIN zone_data) \cup {fish_name} |->
                 IF n = fish_name THEN entry ELSE zone_data[n]]
         ELSE d[z]]

\* An update_discovery that counts only the first catch of a creature.
update_discovery_once(d, zone, fish_name, weight, value) ==
  LET zone_data == IF zone \in DOMAIN d THEN d[zone] ELSE << >>
      old == EntryOf(d, zone, fish_name)
      entry == [count |-> 1,
                maxWeight |-> IF weight > old.maxWeight THEN weight ELSE old.maxWeight,
                maxValue |-> IF MoneyLess(old.maxValue, value) THEN value
                             ELSE old.maxValue]
  IN  [z \in (DOMAIN d) \cup {zone} |->
         IF z = zone
         THEN [n \in (DOMAIN zone_data) \cup {fish_name} |->
                 IF n = fish_name THEN entry ELSE zone_data[n]]
         ELSE d[z]]

\* update_discovery(zone, fish_name, weight, value) on the log d.
update_discovery(d, zone, fish_name, weight, value) ==
  LET zone_data == IF zone \in DOMAIN d THEN d[zone] ELSE << >>
      old == EntryOf(d, zone, fish_name)
      entry == [count |-> old.count + 1,
                maxWeight |-> IF weight > old.maxWeight THEN weight ELSE old.maxWeight,
                maxValue |-> IF MoneyLess(old.maxValue, value) THEN value
                             ELSE old.maxValue]
  IN  [z \in (DOMAIN d) \cup {zone} |->
         IF z = zone
         THEN [n \in (DOMAIN zone_data) \cup {fish_name} |->
                 IF n = fish_name THEN entry ELSE zone_data[n]]
         ELSE d[z]]

\* Bound: the number of catches of one run.
MaxCatches == 3

\* The catalog entries the model catches: one of each zone, among them a name two
\* zones share.
SampleNames == {"Carp", "Starfish", "Lanternfish", "Prism Trout", "Mosasaurus"}

SampleFish(zone) == {f \in Range(ZONE_FISH_MAP[zone]) : f.name \in SampleNames}

\* The items a catch in zone is reported with: normal catches of the sampled
\* entries, the zone's boss, and in Bathyal the full-moon pool.
SampleCatches(zone) ==
  UNION {NormalCatches(zone, f) : f \in SampleFish(zone)}
    \cup BossCatches(zone)
    \cup (IF zone = "Bathyal" THEN FullMoonCatches(zone) ELSE {})

\* One call update_discovery(zone, name, weight, value) as obtain_fish and the boss
\* path make it (lines 1057-1058 and 659-660), for the caught item it.
UpdateDiscovery(it) ==
  /\ session = "running"
  /\ Len(catch_log) < MaxCatches
  /\ discovery' = update_discovery(discovery, it.zone, it.name, it.weight, ItemValue(it))
  /\ catch_log' = Append(catch_log, [zone |-> it.zone, name |-> it.name,
                                     weight |-> it.weight, value |-> ItemValue(it)])
  /\ last' = [op |-> "update_discovery", zone |-> it.zone, name |-> it.name,
              weight |-> it.weight, value |-> ItemValue(it), before |-> discovery]
  /\ UNCHANGED << ledgerVars, levelVars, flagVars, clockVars, zoneVars, fileVars,
                  zone_quests, session >>

InitDiscovery == InitFresh(1)

NextDiscovery == \E z \in ZONES : \E it \in SampleCatches(z) : UpdateDiscovery(it)

\* Any sequence of at most MaxCatches reported catches from a fresh game.
SpecDiscovery == InitDiscovery /\ [][NextDiscovery]_vars

\* The names with an entry in zone of the log d.
EntryNames(d, zone) == IF zone \in DOMAIN d THEN DOMAIN d[zone] ELSE {}

\* The catches of (zone, name) recorded so far.
CatchesOf(zone, name) ==
  {i \in 1..Len(catch_log) : catch_log[i].zone = zone /\ catch_log[i].name = name}

\* C3: each call of update_discovery increases the entry's count by exactly 1 and
\* never decreases its maxWeight or maxValue; after any sequence of catches the
\* maxima are the largest weight and the largest value seen for that (zone, name);
\* the entries of the other (zone, name) pairs are unchanged by the call.
C3_Discovery ==
  /\ last.op = "update_discovery" =>
       LET old == EntryOf(last.before, last.zone, last.name)
           new == EntryOf(discovery, last.zone, last.name)
       IN  /\ HasEntry(discovery, last.zone, last.name)
           /\ new.count = old.count + 1
           /\ new.maxWeight >= old.maxWeight
           /\ ~MoneyLess(new.maxValue, old.maxValue)
           /\ \A z \in (DOMAIN discovery) \cup (DOMAIN last.before) :
                \A n \in EntryNames(discovery, z) \cup EntryNames(last.before, z) :
                  (z # last.zone \/ n # last.name) =>
                     /\ HasEntry(discovery, z, n) = HasEntry(last.before, z, n)
                     /\ EntryOf(discovery, z, n) = EntryOf(last.before, z, n)
  /\ \A z \in DOMAIN discovery : \A n \in DOMAIN discovery[z] :
       LET seen == CatchesOf(z, n)
           e == discovery[z][n]
       IN  /\ seen # {}
           /\ e.count = Cardinality(seen)
           /\ \E i \in seen : catch_log[i].weight = e.maxWeight
           /\ \A i \in seen : catch_log[i].weight <= e.maxWeight
           /\ \E i \in seen : catch_log[i].value = e.maxValue
           /\ \A i \in seen : ~MoneyLess(e.maxValue, catch_log[i].value)
  /\ \A i \in 1..Len(catch_log) : HasEntry(discovery, catch_log[i].zone, catch_log[i].name)

\* A lighter catch of a creature has followed a heavier one of the same zone and
\* name, and the maxima stayed those of the heavier one.
C3_Witness ==
  /\ last.op = "update_discovery"
  /\ EntryOf(last.before, last.zone, last.name).count >= 1
  /\ last.weight < EntryOf(last.before, last.zone, last.name).maxWeight
  /\ MoneyLess(last.value, EntryOf(last.before, last.zone, last.name).maxValue)
  /\ EntryOf(discovery, last.zone, last.name).maxWeight > last.weight
  /\ EntryOf(discovery, last.zone, last.name).count >= 2

(***************************************************************************)
(* Save and load (lines 444-497).  A stored document is a JSON object: a   *)
(* function from its keys to their values; a tampered one may lack keys.   *)
(***************************************************************************)
\* data.get(key, default)
Get(data, key, default) == IF key \in DOMAIN data THEN data[key] ELSE default

\* Quest.to_dict (asdict): the JSON object of a quest.
to_dict(q) ==
  [quest_type |-> q.quest_type, zone |-> q.zone, target_fish |-> q.target_fish,
   rarity |-> q.rarity, amount |-> q.amount, progress |-> q.progress,
   reward |-> q.reward]

\* Quest(**q): the quest of a JSON object, absent keys taking the dataclass defaults.
FromDict(q) ==
  Quest(q.quest_type, q.zone, Get(q, "target_fish", None), Get(q, "rarity", None),
        Get(q, "amount", 1), Get(q, "progress", 0), Get(q, "reward", 0))

\* QuestManager.to_dict
QuestsToDict(zq) ==
  [zone \in DOMAIN zq |-> [i \in 1..Len(zq[zone]) |-> to_dict(zq[zone][i])]]

\* The quest lists of a document as QuestManager.__init__ reads them.
QuestsFromDict(qd) ==
  [zone \in DOMAIN qd |-> [i \in 1..Len(qd[zone]) |-> FromDict(qd[zone][i])]]

\* hashlib.sha256(json.dumps(data, sort_keys=True)): an ideal digest, equal for two
\* documents exactly when their canonical serializations are equal.
Digest(data) == [sha256 |-> data]

\* The persisted attributes of the session, under their attribute names.
Memory ==
  [balance |-> balance,
   inventory |-> inventory,
   has_submarine |-> has_submarine,
   has_boat |-> has_boat,
   has_torch |-> has_torch,
   has_abyss_trench_access |-> has_abyss_trench_access,
   has_ancient_sea_access |-> has_ancient_sea_access,
   has_ancient_key |-> has_ancient_key,
   has_floating_key |-> has_floating_key,
   current_hour |-> current_hour,
   current_day |-> current_day,
   event |-> event,
   level |-> level,
   xp |-> xp,
   discovery |-> discovery,
   zone_quests |-> zone_quests]

\* The dict save_game builds from the session g (lines 445-462).
SaveData(g) ==
  [balance |-> g.balance,
   inventoryFish |-> g.inventory,
   hasSubmarine |-> g.has_submarine,
   hasBoat |-> g.has_boat,
   hasTorch |-> g.has_torch,
   hasAbyssTrenchAccess |-> g.has_abyss_trench_access,
   hasAncientSeaAccess |-> g.has_ancient_sea_access,
   hasAncientKey |-> g.has_ancient_key,
   hasFloatingKey |-> g.has_floating_key,
   currentHour |-> g.current_hour,
   currentDay |-> g.current_day,
   event |-> g.event,
   level |-> g.level,
   xp |-> g.xp,
   discovery |-> g.discovery,
   quests |-> QuestsToDict(g.zone_quests)]

\* data with the key "hash" added.
WithHash(data, h) ==
  [k \in (DOMAIN data) \cup {"hash"} |-> IF k = "hash" THEN h ELSE data[k]]

\* data.pop('hash', ''): the document without its digest.
WithoutHash(doc) == [k \in (DOMAIN doc) \ {"hash"} |-> doc[k]]

\* A save_game that leaves the clock out of the document.
StoredDocumentNoClock(g) ==
  LET data == [k \in (DOMAIN SaveData(g)) \ {"currentHour", "currentDay"} |->
                 SaveData(g)[k]]
  IN  WithHash(data, Digest(data))

\* The document save_game writes for the session g.
StoredDocument(g) == WithHash(SaveData(g), Digest(SaveData(g)))

\* save_game() with the session holding g: the file written, and the history of
\* it (the attributes saved, and that the file is the document written from them).
save_game(g) ==
  /\ save_file' = StoredDocument(g)
  /\ snapshot' = [game |-> g, intact |-> TRUE]

\* A digest check that accepts a document without a digest.
DigestAcceptedLax(doc) ==
  "hash" \notin DOMAIN doc \/ doc["hash"] = Digest(WithoutHash(doc))

\* saved_hash == computed_hash (lines 473-476): whether load_game goes on to copy
\* the stored fields; the '' a missing key pops is the digest of no document.
DigestAccepted(doc) == "hash" \in DOMAIN doc /\ doc["hash"] = Digest(WithoutHash(doc))

\* The attributes load_game assigns from an accepted document (lines 479-493).
LoadedMemory(data) ==
  [balance |-> Get(data, "balance", Dollars(100)),
   inventory |-> Get(data, "inventoryFish", << >>),
   has_submarine |-> Get(data, "hasSubmarine", FALSE),
   has_boat |-> Get(data, "hasBoat", FALSE),
   has_torch |-> Get(data, "hasTorch", FALSE),
   has_abyss_trench_access |-> Get(data, "hasAbyssTrenchAccess", FALSE),
   has_ancient_sea_access |-> Get(data, "hasAncientSeaAccess", FALSE),
   has_ancient_key |-> Get(data, "hasAncientKey", FALSE),
   has_floating_key |-> Get(data, "hasFloatingKey", FALSE),
   current_hour |-> Get(data, "currentHour", 0),
   current_day |-> Get(data, "currentDay", 0),
   event |-> Get(data, "event", "Nothing"),
   level |-> Get(data, "level", 0),
   xp |-> Get(data, "xp", 0),
   discovery |-> Get(data, "discovery", << >>)]

\* self.loaded_quests after load_game (lines 494 and 497).
LoadedQuests(file) ==
  IF file = NoFile THEN << >> ELSE Get(WithoutHash(file), "quests", << >>)

\* The session takes the persisted attributes of g, other than the quest lists.
AssignMemory(g) ==
  /\ balance' = g.balance
  /\ inventory' = g.inventory
  /\ has_submarine' = g.has_submarine
  /\ has_boat' = g.has_boat
  /\ has_torch' = g.has_torch
  /\ has_abyss_trench_access' = g.has_abyss_trench_access
  /\ has_ancient_sea_access' = g.has_ancient_sea_access
  /\ has_ancient_key' = g.has_ancient_key
  /\ has_floating_key' = g.has_floating_key
  /\ current_hour' = g.current_hour
  /\ current_day' = g.current_day
  /\ event' = g.event
  /\ level' = g.level
  /\ xp' = g.xp
  /\ discovery' = g.discovery

\* The defaults of lines 419-433, as load_game finds them.
DefaultMemory ==
  LoadedMemory(<< >>)

\* Game(): a new process constructs the session (lines 416-441).  Without a file
\* the defaults stay; a file whose digest does not match ends the process inside
\* load_game, before any attribute is assigned and before the QuestManager exists;
\* otherwise the stored fields are copied and QuestManager(loaded_quests) built,
\* seed naming the draws of the quests it generates.
Construct(seed) ==
  /\ session # "running"
  /\ current_zone' = "Lake"
  /\ current_fish_list' = "FISH_LAKE"
  /\ current_zone_catch_length' = 5
  /\ last' = [op |-> "construct", file |-> save_file]
  /\ UNCHANGED << fileVars, catch_log >>
  /\ IF save_file # NoFile /\ ~DigestAccepted(save_file)
     THEN /\ session' = "terminated"
          /\ AssignMemory(DefaultMemory)
          /\ zone_quests' = << >>
     ELSE /\ session' = "running"
          /\ AssignMemory(IF save_file = NoFile THEN DefaultMemory
                          ELSE LoadedMemory(WithoutHash(save_file)))
          /\ zone_quests' = QuestManagerInit(QuestsFromDict(LoadedQuests(save_file)),
                                             SeedDraws(seed))

\* Menu choice '8' (lines 1240-1241): the loop ends, nothing is saved.
ExitGame ==
  /\ session = "running"
  /\ session' = "exited"
  /\ last' = [op |-> "exit"]
  /\ UNCHANGED << ledgerVars, levelVars, flagVars, clockVars, zoneVars, fileVars,
                  discovery, zone_quests, catch_log >>

(***************************************************************************)
(* The handlers of the main menu (Game.run, lines 1221-1249).              *)
(***************************************************************************)
\* a - b for amounts with b <= a.
MoneySub(a, b) ==
  IF a.m >= b.m THEN [d |-> a.d - b.d, m |-> a.m - b.m]
  ELSE [d |-> a.d - b.d - 1, m |-> a.m + 1000 - b.m]

get_time_of_day(hour) ==
  IF 6 <= hour /\ hour < 18 THEN "Day"
  ELSE IF 18 <= hour /\ hour < 22 THEN "Sunset"
  ELSE "Night"

get_current_season(day) == SEASONS[((day \div 7) % 4) + 1]

\* The catalog a value of current_fish_list names.
FishList(list_name) ==
  CASE list_name = "FISH_LAKE"          -> FISH_LAKE
    [] list_name = "FISH_SEA"           -> FISH_SEA
    [] list_name = "FISH_BATHYAL"       -> FISH_BATHYAL
    [] list_name = "FISH_MYSTIC_SPRING" -> FISH_MYSTIC_SPRING
    [] list_name = "FISH_ABYSS_TRENCH"  -> FISH_ABYSS_TRENCH
    [] list_name = "FISH_ANCIENT_SEA"   -> FISH_ANCIENT_SEA

\* The weights without the entry 'Exotic': 0, so that Exotic takes the default 3.
RarityWeight_noexotic(rarity) ==
  CASE rarity = "Common"    -> 5
    [] rarity = "Rare"      -> 2
    [] rarity \in {"Epic", "Legendary", "Mythical"} -> 1
    [] OTHER                -> 3

\* The weights with one copy too few of every entry ([fish] * (weight - 1)).
RarityWeight_less(rarity) ==
  CASE rarity = "Common"    -> 4
    [] rarity = "Rare"      -> 1
    [] rarity \in {"Epic", "Legendary", "Mythical", "Exotic"} -> 0
    [] OTHER                -> 2

\* The number of copies of an entry in the weighted list (lines 686-694).
RarityWeight(rarity) ==
  CASE rarity = "Common"    -> 5
    [] rarity = "Uncommon"  -> 3
    [] rarity = "Rare"      -> 2
    [] rarity = "Epic"      -> 1
    [] rarity = "Legendary" -> 1
    [] rarity = "Mythical"  -> 1
    [] rarity = "Exotic"    -> 0
    [] OTHER                -> 3

\* The filter without the time-of-day gate of lines 676-677.
Filtered_anytime(fish_list, hour, day) ==
  {f \in Range(fish_list) :
     /\ f.rarity # "???"
     /\ (f.seasons = {} \/ get_current_season(day) \in f.seasons)}

\* The filter without the boss exclusion of lines 672-673.
Filtered_bosses(fish_list, hour, day) ==
  {f \in Range(fish_list) :
     /\ (f.time_of_day = {} \/ get_time_of_day(hour) \in f.time_of_day)
     /\ (f.seasons = {} \/ get_current_season(day) \in f.seasons)}

\* The entries that pass the filter of lines 671-680 at the given hour and day.
Filtered(fish_list, hour, day) ==
  {f \in Range(fish_list) :
     /\ f.rarity # "???"
     /\ (f.time_of_day = {} \/ get_time_of_day(hour) \in f.time_of_day)
     /\ (f.seasons = {} \/ get_current_season(day) \in f.seasons)}

\* The entries random.choice(weighted) can return (lines 681-696).
Catchable(fish_list, hour, day) ==
  LET filtered == IF Filtered(fish_list, hour, day) = {} THEN Range(fish_list)
                  ELSE Filtered(fish_list, hour, day)
  IN  {f \in filtered : RarityWeight(f.rarity) > 0}

\* advance_time() without the modulo of line 843.
advance_time_nowrap(hour, day, ev, moon) ==
  LET h == hour + 1
  IN  [current_hour |-> h,
       current_day |-> IF hour = 23 THEN day + 1 ELSE day,
       event |-> IF h < 20 THEN "Nothing"
                 ELSE IF ev = "Nothing" THEN (IF moon THEN "Full Moon" ELSE "Nothing")
                 ELSE ev]

\* advance_time() without the reset of lines 846-847.
advance_time_keep(hour, day, ev, moon) ==
  LET h == (hour + 1) % 24
  IN  [current_hour |-> h,
       current_day |-> IF h = 0 /\ hour = 23 THEN day + 1 ELSE day,
       event |-> IF h >= 20 /\ ev = "Nothing"
                 THEN (IF moon THEN "Full Moon" ELSE "Nothing")
                 ELSE ev]

\* advance_time(): the clock after it; moon is the outcome randint(1, 100) <= 20.
advance_time(hour, day, ev, moon) ==
  LET h == (hour + 1) % 24
  IN  [current_hour |-> h,
       current_day |-> IF h = 0 /\ hour = 23 THEN day + 1 ELSE day,
       event |-> IF h < 20 THEN "Nothing"
                 ELSE IF ev = "Nothing" THEN (IF moon THEN "Full Moon" ELSE "Nothing")
                 ELSE ev]

\* A landing that puts the item in the inventory twice, as a boss path that fell
\* through to the normal catch would.
Landed_twice(it, xp_gain) ==
  /\ inventory' = Append(Append(inventory, it), it)
  /\ LET r == check_level_up(level, xp + xp_gain)
     IN  level' = r.level /\ xp' = r.xp
  /\ discovery' = update_discovery(discovery, current_zone, it.name, it.weight,
                                   ItemValue(it))
  /\ zone_quests' = update_quest_progress(zone_quests, current_zone, it.name, it.rarity)
  /\ catch_log' = Append(catch_log, [zone |-> current_zone, name |-> it.name,
                                     weight |-> it.weight, value |-> ItemValue(it)])

\* What landing the item it for xp_gain experience does to the session, common to
\* the boss path (lines 653-661) and obtain_fish (lines 1045-1059).
Landed(it, xp_gain) ==
  /\ inventory' = Append(inventory, it)
  /\ LET r == check_level_up(level, xp + xp_gain)
     IN  level' = r.level /\ xp' = r.xp
  /\ discovery' = update_discovery(discovery, current_zone, it.name, it.weight,
                                   ItemValue(it))
  /\ zone_quests' = update_quest_progress(zone_quests, current_zone, it.name, it.rarity)
  /\ catch_log' = Append(catch_log, [zone |-> current_zone, name |-> it.name,
                                     weight |-> it.weight, value |-> ItemValue(it)])

\* A cast whose full-moon catch is drawn from the zone's catalog like a normal one.
CanLand_catalog(kind, it) ==
  /\ it.zone = current_zone
  /\ kind \in {"fish", "exotic", "boss"}
  /\ \E f \in Catchable(FishList(current_fish_list), current_hour, current_day) :
       /\ it.name = f.name /\ it.rarity = f.rarity
       /\ it.price = CatchPrice(current_zone, f)

\* Whether it is an item the cast can land with outcome kind in the present state.
CanLand(kind, it) ==
  /\ it.zone = current_zone
  /\ CASE kind = "boss" ->
            /\ it.name = ZONE_BOSS_MAP[current_zone] /\ it.rarity = "???"
            /\ it.price = 100000
            /\ it.weight \in 10000..100000 /\ it.weight % 10 = 0
       [] kind = "exotic" ->
            /\ \E i \in 1..Len(EXOTIC_FISH_FULL_MOON) :
                 /\ it.name = EXOTIC_FISH_FULL_MOON[i].name
                 /\ it.rarity = EXOTIC_FISH_FULL_MOON[i].rarity
                 /\ it.price = EXOTIC_FISH_FULL_MOON[i].price
            /\ it.weight \in 10000..1000000 /\ it.weight % 10 = 0
       [] kind = "fish" ->
            \E f \in Catchable(FishList(current_fish_list), current_hour, current_day) :
              /\ it.name = f.name /\ it.rarity = f.rarity
              /\ it.price = CatchPrice(current_zone, f)
              /\ LET range == WeightRange(f.name, f.rarity)
                 IN  /\ it.weight \in range.lo..range.hi
                     /\ (it.weight - range.lo) % range.step = 0

\* The session as save_game finds it inside a cast: after the catch, before
\* advance_time (lines 662 and 1067 run before line 1227).
MemoryBeforeTick ==
  [Memory' EXCEPT !.current_hour = current_hour, !.current_day = current_day,
                  !.event = event]

\* Menu choice '1' (lines 1225-1227): start_fishing() then advance_time().  The
\* cast's random and keyboard outcomes are the inputs: kind is "miss" (the
\* minigame is lost), "escape" (a boss appears and gets away), "boss" (a boss is
\* landed), "fish" (a normal catch) or "exotic" (a full-moon catch); it is the item
\* landed; key the roll for the floating key; moon the event roll of advance_time.
\* FishingAs is the cast that takes the path of kind and is logged as outcome.
FishingAs(kind, outcome, it, key, moon) ==
  /\ session = "running"
  /\ LET t == advance_time(current_hour, current_day, event, moon)
     IN  /\ current_hour' = t.current_hour
         /\ current_day' = t.current_day
         /\ event' = t.event
  /\ LET is_exotic == current_zone = "Bathyal" /\ event = "Full Moon"
     IN  CASE kind = "miss" ->
                UNCHANGED << ledgerVars, levelVars, flagVars, fileVars, discovery,
                             zone_quests, catch_log >>
           [] kind = "escape" ->
                /\ ~is_exotic
                /\ current_zone \in DOMAIN ZONE_BOSS_MAP
                /\ UNCHANGED << ledgerVars, levelVars, flagVars, fileVars, discovery,
                                zone_quests, catch_log >>
           [] kind = "boss" ->
                /\ ~is_exotic
                /\ current_zone \in DOMAIN ZONE_BOSS_MAP
                /\ CanLand(kind, it)
                /\ Landed(it, BossXp(current_zone))
                /\ UNCHANGED << balance, flagVars >>
                /\ save_game(MemoryBeforeTick)
           [] kind = "fish" ->
                /\ ~is_exotic
                /\ CanLand(kind, it)
                /\ Landed(it, get_xp_by_rarity(it.rarity))
                /\ has_ancient_key' = (has_ancient_key \/ it.name = "Ancient Key")
                /\ has_floating_key' =
                     (has_floating_key \/ (current_zone = "Sea" /\ key))
                /\ UNCHANGED << balance, has_submarine, has_boat, has_torch,
                                has_abyss_trench_access, has_ancient_sea_access >>
                /\ save_game(MemoryBeforeTick)
           [] kind = "exotic" ->
                /\ is_exotic
                /\ CanLand(kind, it)
                /\ Landed(it, get_xp_by_rarity(it.rarity))
                /\ has_ancient_key' = (has_ancient_key \/ it.name = "Ancient Key")
                /\ has_floating_key' =
                     (has_floating_key \/ (current_zone = "Sea" /\ key))
                /\ UNCHANGED << balance, has_submarine, has_boat, has_torch,
                                has_abyss_trench_access, has_ancient_sea_access >>
                /\ save_game(MemoryBeforeTick)
  /\ last' = [op |-> "fishing", kind |-> outcome]
  /\ UNCHANGED << zoneVars, session >>

\* A cast whose boss encounter, when lost, goes on to the normal draw.
Fishing_redraw(kind, it, key, moon) ==
  FishingAs(IF kind = "escape" THEN "fish" ELSE kind, kind, it, key, moon)

\* A cast that lands a catch although its skill check was lost.
Fishing_lucky(kind, it, key, moon) ==
  FishingAs(IF kind = "miss" THEN "fish" ELSE kind, kind, it, key, moon)

Fishing(kind, it, key, moon) == FishingAs(kind, kind, it, key, moon)

(***************************************************************************)
(* Selling (lines 1071-1117).  The line typed at the prompt is the         *)
(* sequence of its characters.                                             *)
(***************************************************************************)
\* str.split(): the maximal runs of characters other than the space.
RECURSIVE split_from(_, _)
split_from(s, i) ==
  IF i > Len(s) THEN << >>
  ELSE IF s[i] = " " THEN split_from(s, i + 1)
  ELSE LET j == CHOOSE j \in i..Len(s) :
                  /\ \A k \in i..j : s[k] # " "
                  /\ (j = Len(s) \/ s[j + 1] = " ")
       IN  << SubSeq(s, i, j) >> \o split_from(s, j + 1)

split(s) == split_from(s, 1)

DigitValue(c) ==
  CASE c = "0" -> 0 [] c = "1" -> 1 [] c = "2" -> 2 [] c = "3" -> 3 [] c = "4" -> 4
    [] c = "5" -> 5 [] c = "6" -> 6 [] c = "7" -> 7 [] c = "8" -> 8 [] c = "9" -> 9

IsDigit(c) == c \in {"0", "1", "2", "3", "4", "5", "6", "7", "8", "9"}

RECURSIVE DigitsValue(_)
DigitsValue(ds) ==
  IF ds = << >> THEN 0
  ELSE DigitsValue(SubSeq(ds, 1, Len(ds) - 1)) * 10 + DigitValue(ds[Len(ds)])

\* int(t) for a token t: an optional sign and at least one digit, anything else
\* raising ValueError (ok = FALSE).
int(t) ==
  LET signed == Len(t) > 0 /\ t[1] \in {"+", "-"}
      ds == IF signed THEN Tail(t) ELSE t
      ok == Len(ds) > 0 /\ \A i \in 1..Len(ds) : IsDigit(ds[i])
  IN  [ok |-> ok,
       value |-> IF ~ok THEN 0
                 ELSE IF signed /\ t[1] = "-" THEN 0 - DigitsValue(ds)
                 ELSE DigitsValue(ds)]

\* The string of a sequence of characters.
RECURSIVE Str(_)
Str(s) == IF s = << >> THEN "" ELSE s[1] \o Str(Tail(s))

\* ' '.join(tokens)
RECURSIVE join(_)
join(tokens) ==
  IF tokens = << >> THEN ""
  ELSE IF Len(tokens) = 1 THEN Str(tokens[1])
  ELSE Str(tokens[1]) \o " " \o join(Tail(tokens))

\* option.startswith('sell x')
StartsWithSellX(option) ==
  Len(option) >= 6 /\ SubSeq(option, 1, 6) = << "s", "e", "l", "l", " ", "x" >>

\* Lines 1093-1095: amount and name of a line that starts with 'sell x'.
ParseSell(option) ==
  LET parts == split(option)
      amount == int(Tail(parts[2]))
  IN  [ok |-> amount.ok, amount |-> amount.value,
       name |-> join(SubSeq(parts, 3, Len(parts)))]

\* A sum that rounds every product to cents before adding it.
RECURSIVE TotalWorthRounded(_)
TotalWorthRounded(items) ==
  IF items = << >> THEN Dollars(0)
  ELSE MoneyAdd(ItemValue(items[1]), TotalWorthRounded(Tail(items)))

\* sum(f['weight'] * f['price'] for f in items)
RECURSIVE TotalWorth(_)
TotalWorth(items) ==
  IF items = << >> THEN Dollars(0)
  ELSE MoneyAdd(ItemWorth(items[1]), TotalWorth(Tail(items)))

\* The positions of the inventory whose item is named name, in order (line 1100).
RECURSIVE FoundFrom(_, _, _)
FoundFrom(inv, name, i) ==
  IF i > Len(inv) THEN << >>
  ELSE IF inv[i].name = name THEN << i >> \o FoundFrom(inv, name, i + 1)
  ELSE FoundFrom(inv, name, i + 1)

Found(inv, name) == FoundFrom(inv, name, 1)

\* found[:amount]: the first amount elements, or all but the last -amount when
\* amount is negative.
Slice(found, amount) ==
  IF amount >= 0 THEN SubSeq(found, 1, Min(amount, Len(found)))
  ELSE SubSeq(found, 1, Len(found) + amount)

\* The list without the elements at the given positions.
RECURSIVE Without(_, _, _)
Without(inv, positions, i) ==
  IF i > Len(inv) THEN << >>
  ELSE IF i \in positions THEN Without(inv, positions, i + 1)
  ELSE << inv[i] >> \o Without(inv, positions, i + 1)

\* A sell_fish that sells what there is when fewer than the amount are held.
SellOutcome_partial(inv, option) ==
  IF inv = << >> THEN [path |-> "empty", earned |-> Dollars(0), inventory |-> inv]
  ELSE IF option = << "a", "l", "l" >>
  THEN [path |-> "all", earned |-> Round2(TotalWorth(inv)), inventory |-> << >>]
  ELSE IF StartsWithSellX(option)
  THEN LET p == ParseSell(option)
           found == Found(inv, p.name)
           sell_list == Slice(found, p.amount)
       IN  IF ~p.ok THEN [path |-> "invalid", earned |-> Dollars(0), inventory |-> inv]
           ELSE [path |-> IF Len(found) < p.amount THEN "short" ELSE "some",
                 earned |-> Round2(TotalWorth([i \in 1..Len(sell_list) |->
                                                 inv[sell_list[i]]])),
                 inventory |-> Without(inv, Range(sell_list), 1)]
  ELSE [path |-> "invalid", earned |-> Dollars(0), inventory |-> inv]

\* The outcome of sell_fish for the typed line: the path taken, the money earned
\* and the inventory left.
SellOutcome(inv, option) ==
  IF inv = << >> THEN [path |-> "empty", earned |-> Dollars(0), inventory |-> inv]
  ELSE IF option = << "a", "l", "l" >>
  THEN [path |-> "all", earned |-> Round2(TotalWorth(inv)), inventory |-> << >>]
  ELSE IF StartsWithSellX(option)
  THEN LET p == ParseSell(option)
           found == Found(inv, p.name)
           sell_list == Slice(found, p.amount)
       IN  IF ~p.ok THEN [path |-> "invalid", earned |-> Dollars(0), inventory |-> inv]
           ELSE IF Len(found) < p.amount
           THEN [path |-> "short", earned |-> Dollars(0), inventory |-> inv]
           ELSE [path |-> "some",
                 earned |-> Round2(TotalWorth([i \in 1..Len(sell_list) |->
                                                 inv[sell_list[i]]])),
                 inventory |-> Without(inv, Range(sell_list), 1)]
  ELSE [path |-> "invalid", earned |-> Dollars(0), inventory |-> inv]

\* Menu choice '3': sell_fish() with option typed at its prompt (the prompt is not
\* reached when the inventory is empty).
SellFish(option) ==
  /\ session = "running"
  /\ LET o == SellOutcome(inventory, option)
     IN  /\ balance' = MoneyAdd(balance, o.earned)
         /\ inventory' = o.inventory
         /\ last' = [op |-> "sell_fish", option |-> option, path |-> o.path,
                     balance |-> balance, inventory |-> inventory]
         /\ UNCHANGED << levelVars, flagVars, clockVars, zoneVars, discovery,
                         zone_quests, session, catch_log >>
         /\ IF o.path \in {"all", "some"} THEN save_game(Memory')
            ELSE UNCHANGED fileVars

(***************************************************************************)
(* Zone, shop, quests and the admin command.                               *)
(***************************************************************************)
\* get_unlocked_zones() (lines 548-560), as a set.
get_unlocked_zones ==
  {"Lake"}
    \cup (IF has_boat THEN {"Sea"} ELSE {})
    \cup (IF has_submarine THEN {"Bathyal"} ELSE {})
    \cup (IF has_torch THEN {"Mystic Spring"} ELSE {})
    \cup (IF has_abyss_trench_access THEN {"Abyss Trench"} ELSE {})
    \cup (IF has_ancient_sea_access THEN {"Ancient Sea"} ELSE {})

\* The zone, catalog and catch-zone length a choice of the zone menu selects
\* (lines 771-826); a choice outside "1".."6" selects Lake.
ZoneChoice(choice) ==
  CASE choice = "1" -> [zone |-> "Sea", list |-> "FISH_SEA", length |-> 3]
    [] choice = "3" -> [zone |-> "Bathyal", list |-> "FISH_BATHYAL", length |-> 5]
    [] choice = "4" -> [zone |-> "Mystic Spring", list |-> "FISH_MYSTIC_SPRING",
                        length |-> 5]
    [] choice = "5" -> [zone |-> "Abyss Trench", list |-> "FISH_ABYSS_TRENCH",
                        length |-> 4]
    [] choice = "6" -> [zone |-> "Ancient Sea", list |-> "FISH_ANCIENT_SEA",
                        length |-> 3]
    [] OTHER        -> [zone |-> "Lake", list |-> "FISH_LAKE", length |-> 5]

\* A choose_zone that does not look at the unlock flags.
ChooseZone_open(choice) ==
  /\ session = "running"
  /\ LET z == ZoneChoice(choice)
     IN  IF z.zone \in ZONES
         THEN /\ current_zone' = z.zone
              /\ current_fish_list' = z.list
              /\ current_zone_catch_length' = z.length
         ELSE UNCHANGED zoneVars
  /\ last' = [op |-> "choose_zone", choice |-> choice]
  /\ UNCHANGED << ledgerVars, levelVars, flagVars, clockVars, fileVars, discovery,
                  zone_quests, session, catch_log >>

\* Menu choice '2': choose_zone() with choice typed at its prompt.
ChooseZone(choice) ==
  /\ session = "running"
  /\ LET z == ZoneChoice(choice)
     IN  IF z.zone \in get_unlocked_zones
         THEN /\ current_zone' = z.zone
              /\ current_fish_list' = z.list
              /\ current_zone_catch_length' = z.length
         ELSE UNCHANGED zoneVars
  /\ last' = [op |-> "choose_zone", choice |-> choice]
  /\ UNCHANGED << ledgerVars, levelVars, flagVars, clockVars, fileVars, discovery,
                  zone_quests, session, catch_log >>

\* A show_shop that sells on credit: the balance is not compared with the price.
ShowShop_credit(n) ==
  /\ session = "running"
  /\ last' = [op |-> "show_shop", choice |-> n, balance |-> balance]
  /\ UNCHANGED << inventory, levelVars, clockVars, zoneVars, discovery, zone_quests,
                  session, catch_log, has_ancient_key, has_floating_key >>
  /\ IF n < 1 \/ n > Len(SHOP_ITEMS)
     THEN UNCHANGED << balance, has_submarine, has_boat, has_torch,
                       has_abyss_trench_access, has_ancient_sea_access, fileVars >>
     ELSE LET selected == SHOP_ITEMS[n]
              refused ==
                \/ (selected.name = "Submarine Upgrade 02" /\ ~has_ancient_key)
                \/ (selected.name = "Submarine Upgrade 02" /\ ~has_abyss_trench_access)
          IN  IF refused
              THEN UNCHANGED << balance, has_submarine, has_boat, has_torch,
                                has_abyss_trench_access, has_ancient_sea_access,
                                fileVars >>
              ELSE /\ balance' = MoneySub(balance, Dollars(selected.price))
                   /\ has_submarine' = (has_submarine \/ selected.name = "Submarine")
                   /\ has_boat' = (has_boat \/ selected.name = "Boat")
                   /\ has_torch' = (has_torch \/ selected.name = "Torch")
                   /\ has_abyss_trench_access' =
                        (has_abyss_trench_access
                           \/ selected.name = "Submarine Upgrade 01")
                   /\ has_ancient_sea_access' =
                        (has_ancient_sea_access
                           \/ selected.name = "Submarine Upgrade 02")
                   /\ save_game(Memory')

\* A show_shop that sells Submarine Upgrade 02 without asking for the key or for
\* Submarine Upgrade 01.
ShowShop_nokey(n) ==
  /\ session = "running"
  /\ last' = [op |-> "show_shop", choice |-> n, balance |-> balance]
  /\ UNCHANGED << inventory, levelVars, clockVars, zoneVars, discovery, zone_quests,
                  session, catch_log, has_ancient_key, has_floating_key >>
  /\ IF n < 1 \/ n > Len(SHOP_ITEMS)
     THEN UNCHANGED << balance, has_submarine, has_boat, has_torch,
                       has_abyss_trench_access, has_ancient_sea_access, fileVars >>
     ELSE LET selected == SHOP_ITEMS[n]
              refused ==
                MoneyLess(balance, Dollars(selected.price))
          IN  IF refused
              THEN UNCHANGED << balance, has_submarine, has_boat, has_torch,
                                has_abyss_trench_access, has_ancient_sea_access,
                                fileVars >>
              ELSE /\ balance' = MoneySub(balance, Dollars(selected.price))
                   /\ has_submarine' = (has_submarine \/ selected.name = "Submarine")
                   /\ has_boat' = (has_boat \/ selected.name = "Boat")
                   /\ has_torch' = (has_torch \/ selected.name = "Torch")
                   /\ has_abyss_trench_access' =
                        (has_abyss_trench_access
                           \/ selected.name = "Submarine Upgrade 01")
                   /\ has_ancient_sea_access' =
                        (has_ancient_sea_access
                           \/ selected.name = "Submarine Upgrade 02")
                   /\ save_game(Memory')

\* A show_shop that takes the Ancient Key in payment for Submarine Upgrade 02.
ShowShop_usekey(n) ==
  /\ session = "running"
  /\ last' = [op |-> "show_shop", choice |-> n, balance |-> balance]
  /\ UNCHANGED << inventory, levelVars, clockVars, zoneVars, discovery, zone_quests,
                  session, catch_log, has_floating_key >>
  /\ IF n < 1 \/ n > Len(SHOP_ITEMS)
     THEN UNCHANGED << balance, has_submarine, has_boat, has_torch,
                       has_abyss_trench_access, has_ancient_sea_access,
                       has_ancient_key, fileVars >>
     ELSE LET selected == SHOP_ITEMS[n]
              refused ==
                \/ MoneyLess(balance, Dollars(selected.price))
                \/ (selected.name = "Submarine Upgrade 02" /\ ~has_ancient_key)
                \/ (selected.name = "Submarine Upgrade 02" /\ ~has_abyss_trench_access)
          IN  IF refused
              THEN UNCHANGED << balance, has_submarine, has_boat, has_torch,
                                has_abyss_trench_access, has_ancient_sea_access,
                                has_ancient_key, fileVars >>
              ELSE /\ balance' = MoneySub(balance, Dollars(selected.price))
                   /\ has_submarine' = (has_submarine \/ selected.name = "Submarine")
                   /\ has_boat' = (has_boat \/ selected.name = "Boat")
                   /\ has_torch' = (has_torch \/ selected.name = "Torch")
                   /\ has_abyss_trench_access' =
                        (has_abyss_trench_access
                           \/ selected.name = "Submarine Upgrade 01")
                   /\ has_ancient_sea_access' =
                        (has_ancient_sea_access
                           \/ selected.name = "Submarine Upgrade 02")
                   /\ has_ancient_key' =
                        (has_ancient_key /\ selected.name # "Submarine Upgrade 02")
                   /\ save_game(Memory')

\* Menu choice '5': show_shop() with item number n typed at its prompt (0 returns,
\* a number outside 1..len(SHOP_ITEMS) is an invalid choice).
ShowShop(n) ==
  /\ session = "running"
  /\ last' = [op |-> "show_shop", choice |-> n, balance |-> balance]
  /\ UNCHANGED << inventory, levelVars, clockVars, zoneVars, discovery, zone_quests,
                  session, catch_log, has_ancient_key, has_floating_key >>
  /\ IF n < 1 \/ n > Len(SHOP_ITEMS)
     THEN UNCHANGED << balance, has_submarine, has_boat, has_torch,
                       has_abyss_trench_access, has_ancient_sea_access, fileVars >>
     ELSE LET selected == SHOP_ITEMS[n]
              refused ==
                \/ MoneyLess(balance, Dollars(selected.price))
                \/ (selected.name = "Submarine Upgrade 02" /\ ~has_ancient_key)
                \/ (selected.name = "Submarine Upgrade 02" /\ ~has_abyss_trench_access)
          IN  IF refused
              THEN UNCHANGED << balance, has_submarine, has_boat, has_torch,
                                has_abyss_trench_access, has_ancient_sea_access,
                                fileVars >>
              ELSE /\ balance' = MoneySub(balance, Dollars(selected.price))
                   /\ has_submarine' = (has_submarine \/ selected.name = "Submarine")
                   /\ has_boat' = (has_boat \/ selected.name = "Boat")
                   /\ has_torch' = (has_torch \/ selected.name = "Torch")
                   /\ has_abyss_trench_access' =
                        (has_abyss_trench_access
                           \/ selected.name = "Submarine Upgrade 01")
                   /\ has_ancient_sea_access' =
                        (has_ancient_sea_access
                           \/ selected.name = "Submarine Upgrade 02")
                   /\ save_game(Memory')

\* The command 'admin' at the main menu (lines 1242-1245).
Admin ==
  /\ session = "running"
  /\ balance' = MoneyAdd(balance, Dollars(10000000))
  /\ last' = [op |-> "admin"]
  /\ UNCHANGED << inventory, levelVars, flagVars, clockVars, zoneVars, discovery,
                  zone_quests, session, catch_log >>
  /\ save_game(Memory')

\* show_quest_detail(quest_index) with '4' (Finish) typed at its prompt, then '0'
\* if the screen stays (lines 875-905); the quest menu only opens indices of the
\* zone's list (line 872), quest_index counting from 0.  dr are the draws of the
\* quest generated for the slot.
ShowQuestDetail(quest_index, dr) ==
  /\ session = "running"
  /\ UNCHANGED << inventory, levelVars, flagVars, clockVars, zoneVars, discovery,
                  session, catch_log >>
  /\ LET quests == get_quests_for_zone(zone_quests, current_zone)
     IN  /\ last' = [op |-> "show_quest_detail", quest_index |-> quest_index]
         /\ IF quest_index < 0 \/ quest_index >= Len(quests)
            THEN UNCHANGED << balance, zone_quests, fileVars >>
            ELSE IF is_completed(quests[quest_index + 1])
            THEN LET r == finish_quest(zone_quests, current_zone, quest_index, dr)
                 IN  /\ zone_quests' = r.zone_quests
                     /\ balance' = MoneyAdd(balance, Dollars(r.reward))
                     /\ save_game(Memory')
            ELSE UNCHANGED << balance, zone_quests, fileVars >>

(***************************************************************************)
(* Playing a session: what the specifications of whole sessions draw.      *)
(***************************************************************************)
\* Bound: the number of casts of one run.
MaxCasts == 2

\* The casts made since a fresh game began (each advances the clock by one hour).
Casts == current_day * 24 + current_hour

\* The catalog entries the sessions catch.
CastNames == {"Carp", "Tilapia", "Starfish", "Lanternfish", "Prism Trout"}

\* The outcomes of a cast the sessions draw in the present state.
CastOutcomes ==
  LET keys == IF current_zone = "Sea" /\ ~has_floating_key THEN BOOLEAN ELSE {FALSE}
      moons == IF (current_hour + 1) % 24 >= 20 /\ event = "Nothing" THEN BOOLEAN
               ELSE {FALSE}
      landed ==
        {[kind |-> "boss", it |-> it] : it \in BossCatches(current_zone)}
          \cup {[kind |-> "exotic", it |-> it] : it \in FullMoonCatches(current_zone)}
          \cup UNION {{[kind |-> "fish", it |-> it] : it \in NormalCatches(current_zone, f)} :
                        f \in {g \in Range(FishList(current_fish_list)) :
                                 g.name \in CastNames}}
      nothing == Item("", "", 0, 0, current_zone)
      lost == {[kind |-> "miss", it |-> nothing], [kind |-> "escape", it |-> nothing]}
  IN  {[kind |-> o.kind, it |-> o.it, key |-> k, moon |-> m] :
         o \in landed \cup lost, k \in keys, m \in moons}

Cast ==
  /\ Casts < MaxCasts
  /\ \E c \in CastOutcomes : Fishing(c.kind, c.it, c.key, c.moon)

\* Lines typed at the prompt of sell_fish.
SellLines ==
  {<< "a", "l", "l" >>,
   << "s", "e", "l", "l", " ", "x", "1", " ", "C", "a", "r", "p" >>,
   << "s", "e", "l", "l", " ", "x", "2", " ", "T", "i", "l", "a", "p", "i", "a" >>,
   << "s", "e", "l", "l", " ", "x", "-", "1", " ", "C", "a", "r", "p" >>,
   << "s", "e", "l", "l", " ", "x", "a", " ", "C", "a", "r", "p" >>,
   << "A", "L", "L" >>}

Sell == \E option \in SellLines : SellFish(option)

(***************************************************************************)
(* Selling everything.                                                     *)
(***************************************************************************)
InitSell == InitFresh(1)

NextSell == Cast \/ Sell

\* Sessions of a fresh game that cast at most MaxCasts times and sell.
SpecSell == InitSell /\ [][NextSell]_vars

\* The sum of weight * price over the entries of inv, added from the last entry.
RECURSIVE C4_Sum(_)
C4_Sum(inv) ==
  IF inv = << >> THEN Dollars(0)
  ELSE MoneyAdd(C4_Sum(SubSeq(inv, 1, Len(inv) - 1)),
                WeightTimesPrice(inv[Len(inv)].weight, inv[Len(inv)].price))

\* C4: typing 'all' at the sell prompt with a non-empty inventory empties the
\* inventory and raises the balance by exactly the sum of weight * price over the
\* entries it held, rounded to two decimals; level, xp, the unlock flags and keys,
\* the clock, the zone, the discovery log and the quests do not change.
C4_SellAll ==
  [][(last'.op = "sell_fish" /\ last'.option = << "a", "l", "l" >> /\ inventory # << >>)
       => /\ inventory' = << >>
          /\ balance' = MoneyAdd(balance, Round2(C4_Sum(inventory)))
          /\ UNCHANGED << levelVars, flagVars, clockVars, zoneVars, discovery,
                          zone_quests, session >>]_vars

\* Two Tilapia of 0.5 kg at 1.25$ were sold together for 1.25$ (each alone rounds
\* to 0.62$).
C4_Witness ==
  /\ last.op = "sell_fish" /\ last.option = << "a", "l", "l" >>
  /\ Len(last.inventory) = 2
  /\ \A i \in 1..2 : last.inventory[i].name = "Tilapia" /\ last.inventory[i].weight = 5
  /\ inventory = << >>
  /\ balance = MoneyAdd(last.balance, [d |-> 1, m |-> 250])

(***************************************************************************)
(* Saving, leaving, and starting again from the stored document.           *)
(***************************************************************************)
\* The sessions a run starts from: a fresh game, and two games in progress as
\* they stand right after a save (quest lists aside).
Profiles ==
  LET carp == Item("Carp", "Common", 100, 5, "Lake")
      king == Item("The Drowned King", "???", 100000, 10000, "Lake")
      book == update_discovery(
                update_discovery(<< >>, "Lake", carp.name, carp.weight, ItemValue(carp)),
                "Lake", king.name, king.weight, ItemValue(king))
  IN  {DefaultMemory,
       [DefaultMemory EXCEPT !.balance = [d |-> 10000123, m |-> 620],
                             !.inventory = << carp, king >>,
                             !.discovery = book,
                             !.has_boat = TRUE, !.has_floating_key = TRUE,
                             !.current_hour = 21, !.current_day = 8,
                             !.event = "Full Moon",
                             !.level = 57, !.xp = 1234],
       [DefaultMemory EXCEPT !.balance = Dollars(5),
                             !.discovery = book,
                             !.has_boat = TRUE, !.has_submarine = TRUE,
                             !.has_torch = TRUE, !.has_abyss_trench_access = TRUE,
                             !.has_ancient_key = TRUE, !.has_ancient_sea_access = TRUE,
                             !.current_hour = 5, !.current_day = 30,
                             !.level = 100, !.xp = 0]}

\* The documents an editor of the save file leaves in place of doc: a field
\* changed or removed with the digest as it was, the digest removed, the digest
\* altered, and a field changed or removed with the digest recomputed.
Tamperings(doc) ==
  IF doc = NoFile THEN {}
  ELSE
  LET data == WithoutHash(doc)
      richer == [data EXCEPT !["balance"] = Dollars(999999)]
      no_xp == [k \in (DOMAIN data) \ {"xp"} |-> data[k]]
  IN  {[doc EXCEPT !["balance"] = Dollars(999999)],
       [k \in (DOMAIN doc) \ {"xp"} |-> doc[k]],
       data,
       [doc EXCEPT !["hash"] = Digest(richer)],
       WithHash(richer, Digest(richer)),
       WithHash(no_xp, Digest(no_xp))} \ {doc}

\* The save file is edited while no process runs; each saved document is edited
\* at most once.
Tamper ==
  /\ session # "running"
  /\ save_file # NoFile
  /\ snapshot.intact
  /\ \E doc \in Tamperings(save_file) : save_file' = doc
  /\ snapshot' = [snapshot EXCEPT !.intact = FALSE]
  /\ last' = [op |-> "tamper"]
  /\ UNCHANGED << ledgerVars, levelVars, flagVars, clockVars, zoneVars, discovery,
                  zone_quests, session, catch_log >>

\* Bound: the number of catches of one run, starts of the game included.
MaxSavedCatches == 1

\* The file, if there is one, is the document the game wrote.
Unedited == IF save_file = NoFile THEN TRUE ELSE snapshot.intact

\* A cast that lands something, in a session started on an unedited file.
LandingCast ==
  /\ Unedited
  /\ Len(catch_log) < MaxSavedCatches
  /\ \E c \in CastOutcomes :
       c.kind \notin {"miss", "escape"} /\ Fishing(c.kind, c.it, c.key, c.moon)

InitSave ==
  \E seed \in 1..NumSeeds, g \in Profiles :
    /\ balance = g.balance
    /\ inventory = g.inventory
    /\ has_submarine = g.has_submarine
    /\ has_boat = g.has_boat
    /\ has_torch = g.has_torch
    /\ has_abyss_trench_access = g.has_abyss_trench_access
    /\ has_ancient_sea_access = g.has_ancient_sea_access
    /\ has_ancient_key = g.has_ancient_key
    /\ has_floating_key = g.has_floating_key
    /\ current_hour = g.current_hour
    /\ current_day = g.current_day
    /\ event = g.event
    /\ level = g.level
    /\ xp = g.xp
    /\ discovery = g.discovery
    /\ DefaultZone
    /\ zone_quests = QuestManagerInit(<< >>, SeedDraws(seed))
    /\ save_file = IF g = DefaultMemory THEN NoFile ELSE StoredDocument(Memory)
    /\ snapshot = IF g = DefaultMemory THEN None
                  ELSE [game |-> Memory, intact |-> TRUE]
    /\ session = "running"
    /\ last = [op |-> "init"]
    /\ catch_log = << >>

NextSave ==
  \/ LandingCast
  \/ (Unedited /\ Sell)
  \/ ExitGame
  \/ Tamper
  \/ \E seed \in 1..NumSeeds : Construct(seed)

\* Runs in which the game is played, left, the save file edited or not, and the
\* game started again.
SpecSave == InitSave /\ [][NextSave]_vars

\* Nothing of a stored document is in the session: the process has ended and
\* every persisted attribute is at its default.
C6_Refused ==
  /\ session = "terminated"
  /\ \A k \in DOMAIN DefaultMemory : Memory[k] = DefaultMemory[k]

\* C5: starting the game on the document save_game wrote, unmodified, passes the
\* digest check and gives every persisted attribute (balance, inventory, unlock
\* flags and keys, hour, day, event, level, xp, discovery, and the quests of every
\* zone with progress and reward) the value it had when save_game ran.
C5_RoundTrip ==
  (last.op = "construct" /\ last.file # NoFile /\ snapshot.intact)
    => (session = "running" /\ Memory = snapshot.game)

\* A game in progress, with a catch made after the clock had run, came back as saved.
C5_Witness ==
  /\ last.op = "construct" /\ last.file # NoFile /\ snapshot.intact
  /\ session = "running"
  /\ Len(inventory) = 3 /\ level = 57 /\ event = "Full Moon" /\ has_floating_key
  /\ \E i \in 1..10 : zone_quests["Lake"][i].progress > 0

\* C6 as stated: starting the game on a document that differs in any way from the
\* one saved ends the session with no field of it copied.
C6_AnyDifference ==
  (last.op = "construct" /\ last.file # NoFile
     /\ last.file # StoredDocument(snapshot.game))
    => C6_Refused

\* C6, amended: starting the game on a document whose digest is missing or is not
\* the digest of its other fields ends the session with no field of it copied;
\* a document whose digest is the digest of its fields is loaded, whether or not it
\* is the document that was saved.
C6_DigestMismatch ==
  (last.op = "construct" /\ last.file # NoFile)
    => IF "hash" \in DOMAIN last.file
          /\ last.file["hash"] = Digest(WithoutHash(last.file))
       THEN /\ session = "running"
            /\ \A k \in DOMAIN DefaultMemory :
                 Memory[k] = LoadedMemory(WithoutHash(last.file))[k]
       ELSE C6_Refused

\* A document with the balance changed and the digest as saved was refused.
C6_Witness ==
  /\ last.op = "construct" /\ last.file # NoFile
  /\ "hash" \in DOMAIN last.file
  /\ last.file["hash"] = StoredDocument(snapshot.game)["hash"]
  /\ last.file["balance"] # snapshot.game.balance
  /\ snapshot.game.level = 57
  /\ C6_Refused

(***************************************************************************)
(* The quest manager: construction from saved lists, catches and finishes. *)
(***************************************************************************)
\* Saved quest lists a QuestManager is constructed from, cut from the lists of a
\* fresh manager: none saved; only Lake saved, with 3 quests, the first of them
\* with its reward and rarity missing; Lake saved with 12 quests (two more in front
\* of the fresh ones) and the other zones with 10; Lake saved with an empty list.
SavedQuestLists ==
  LET fresh == QuestManagerInit(<< >>, SeedDraws(1))
      unpaid == Quest(1, "Lake", "Grass carp", None, 2, 1, 0)
  IN  {<< >>,
       [zone \in {"Lake"} |-> << unpaid >> \o SubSeq(fresh[zone], 1, 2)],
       [zone \in ZONES |->
          IF zone = "Lake"
          THEN << Quest(2, "Lake", None, "Uncommon", 1, 0, 20),
                  Quest(1, "Lake", "Carp", "Common", 3, 0, 30) >> \o fresh[zone]
          ELSE fresh[zone]],
       [zone \in {"Lake"} |-> << >>]}

\* QuestManager(quests_data) for saved lists, in a session otherwise fresh; saved
\* records the number of Lake quests it was given.
InitQuest ==
  \E seed \in 1..NumSeeds : \E quests_data \in SavedQuestLists :
    /\ seed = 1 \/ quests_data = << >>
    /\ Defaults
    /\ zone_quests = QuestManagerInit(quests_data, SeedDraws(seed))
    /\ save_file = NoFile
    /\ snapshot = None
    /\ session = "running"
    /\ last = [op |-> "QuestManager",
               saved |-> Len(get_quests_for_zone(quests_data, "Lake"))]
    /\ catch_log = << >>

\* Bound: the number of catches reported to the quest manager in one run.
MaxQuestCatches == 2

\* A call update_quest_progress(player_zone, fish_name, rarity).
UpdateQuestProgress(player_zone, fish_name, rarity) ==
  /\ session = "running"
  /\ Len(catch_log) < MaxQuestCatches
  /\ zone_quests' = update_quest_progress(zone_quests, player_zone, fish_name, rarity)
  /\ catch_log' = Append(catch_log, [zone |-> player_zone, name |-> fish_name,
                                     weight |-> 0, value |-> Dollars(0)])
  /\ last' = [op |-> "update_quest_progress",
              capped |-> \E q \in Range(get_quests_for_zone(zone_quests, player_zone)) :
                           /\ is_completed(q)
                           /\ \/ (q.quest_type = 1 /\ q.target_fish = fish_name)
                              \/ (q.quest_type = 2 /\ q.rarity = rarity)]
  /\ UNCHANGED << ledgerVars, levelVars, flagVars, clockVars, zoneVars, fileVars,
                  discovery, session >>

\* A call finish_quest(zone, quest_index); ret is the value it returns, dr the
\* draws of the quest generated for the slot.
FinishQuest(zone, quest_index, dr) ==
  /\ session = "running"
  /\ LET r == finish_quest(zone_quests, zone, quest_index, dr)
     IN  /\ zone_quests' = r.zone_quests
         /\ last' = [op |-> "finish_quest", zone |-> zone, quest_index |-> quest_index,
                     ret |-> r.reward]
  /\ UNCHANGED << ledgerVars, levelVars, flagVars, clockVars, zoneVars, fileVars,
                  discovery, session, catch_log >>

\* The catches reported to the quest manager.
QuestCatches ==
  {<< "Lake", "Grass carp", "Uncommon" >>, << "Lake", "Snakehead fish", "Legendary" >>}

\* The quest indices used, counted from 0: the first slot of the Lake list,
\* two slots one catch completes, and the two indices next to the list.
QuestIndices == {-1, 0, 6, 7, 10}

\* The calls of finish_quest made: the indices of Lake, and one index of a zone
\* without completed quests and of an unknown zone.
FinishCalls ==
  {<< "Lake", i >> : i \in QuestIndices} \cup {<< "Sea", 0 >>, << "Nowhere", 0 >>}

\* The draws of the quests generated when a quest is finished.
RefillDraws ==
  {[quest_type |-> 1, amount |-> 2, fish |-> 3, rarity |-> None],
   [quest_type |-> 2, amount |-> 20, fish |-> 0, rarity |-> "Legendary"]}

NextQuest ==
  \/ \E c \in QuestCatches : UpdateQuestProgress(c[1], c[2], c[3])
  \/ \E call \in FinishCalls, dr \in RefillDraws : FinishQuest(call[1], call[2], dr)
  \/ \E quest_index \in QuestIndices \cap 0..9, dr \in RefillDraws :
       ShowQuestDetail(quest_index, dr)

\* Calls on the quest manager, and the quest screen, after any start of the game.
SpecQuest == InitQuest /\ [][NextQuest]_vars

\* C7: every quest of every zone has 0 <= progress <= amount.
C7_ProgressBounded ==
  \A zone \in DOMAIN zone_quests : \A q \in Range(zone_quests[zone]) :
    0 <= q.progress /\ q.progress <= q.amount

\* A catch was reported that matches a quest already complete, and a quest that
\* asks for more than one catch stands complete.
C7_Witness ==
  /\ last.op = "update_quest_progress" /\ last.capped
  /\ \E q \in Range(zone_quests["Lake"]) : q.amount > 1 /\ q.progress = q.amount

\* C8: every zone of ZONE_FISH_MAP holds exactly 10 quests.
C8_TenQuests ==
  \A zone \in ZONES : zone \in DOMAIN zone_quests /\ Len(zone_quests[zone]) = 10

\* The manager was constructed from the 12 saved Lake quests, and the first of
\* them has been completed and finished since.
C8_Witness ==
  /\ last.op = "finish_quest" /\ last.zone = "Lake" /\ last.quest_index = 0
  /\ last.ret = 20
  /\ zone_quests["Lake"][2] = Quest(1, "Lake", "Carp", "Common", 3, 0, 30)
  /\ Len(zone_quests["Lake"]) = 10

\* The list quests with the slot at quest_index (from 0) taken out.
C9_Others(quests, quest_index) ==
  [i \in (1..Len(quests)) \ {quest_index + 1} |-> quests[i]]

\* C9: finish_quest(zone, quest_index) returns 0 and leaves the quest lists alone
\* when the index is out of range or the quest's progress is below its amount;
\* otherwise it returns that quest's reward and replaces only the slot at that
\* index, by a quest with progress 0.  Finish on the quest screen adds the reward of
\* a completed quest to the balance and replaces only its slot; on a quest that is
\* not completed it changes neither the balance nor the quests.
C9_FinishQuest ==
  [][/\ last'.op = "finish_quest" =>
          LET quests == get_quests_for_zone(zone_quests, last'.zone)
              i == last'.quest_index
          IN  IF i < 0 \/ i >= Len(quests) \/ quests[i + 1].progress < quests[i + 1].amount
              THEN last'.ret = 0 /\ zone_quests' = zone_quests /\ balance' = balance
              ELSE /\ last'.ret = quests[i + 1].reward
                   /\ DOMAIN zone_quests' = DOMAIN zone_quests
                   /\ \A z \in (DOMAIN zone_quests) \ {last'.zone} :
                        zone_quests'[z] = zone_quests[z]
                   /\ Len(zone_quests'[last'.zone]) = Len(quests)
                   /\ C9_Others(zone_quests'[last'.zone], i) = C9_Others(quests, i)
                   /\ zone_quests'[last'.zone][i + 1].progress = 0
     /\ last'.op = "show_quest_detail" =>
          LET quests == zone_quests[current_zone]
              i == last'.quest_index
          IN  IF quests[i + 1].progress < quests[i + 1].amount
              THEN zone_quests' = zone_quests /\ balance' = balance
              ELSE /\ balance' = MoneyAdd(balance, Dollars(quests[i + 1].reward))
                   /\ \A z \in (DOMAIN zone_quests) \ {current_zone} :
                        zone_quests'[z] = zone_quests[z]
                   /\ C9_Others(zone_quests'[current_zone], i) = C9_Others(quests, i)
                   /\ zone_quests'[current_zone][i + 1].progress = 0]_vars

\* A completed quest was finished on the quest screen: the balance holds its
\* reward and the slot a quest without progress.
C9_Witness ==
  /\ last.op = "show_quest_detail"
  /\ MoneyLess(Dollars(100), balance)
  /\ zone_quests[current_zone][last.quest_index + 1].progress = 0
  /\ save_file # NoFile

(***************************************************************************)
(* Quest generation on its own.                                            *)
(***************************************************************************)
\* A call generate_quest(zone) with the draws dr, on the manager of a fresh game.
GenerateQuest(zone, dr) ==
  /\ session = "running"
  /\ last.op = "init"
  /\ last' = [op |-> "generate_quest", zone |-> zone, dr |-> dr,
              quest |-> generate_quest(zone, dr)]
  /\ UNCHANGED << ledgerVars, levelVars, flagVars, clockVars, zoneVars, fileVars,
                  discovery, zone_quests, session, catch_log >>

InitGenerate == InitFresh(1)

NextGenerate == \E zone \in ZONES : \E dr \in QuestDraws(zone) : GenerateQuest(zone, dr)

\* Every call generate_quest(zone) for a zone of ZONE_FISH_MAP, with every outcome
\* of its random draws.
SpecGenerate == InitGenerate /\ [][NextGenerate]_vars

\* C10: a quest produced by generate_quest, of either kind, has 1 <= amount <= 15,
\* amount <= 5 when its rarity is Legendary, amount <= 1 when its rarity is Boss, and
\* a reward equal to the base value of its rarity times the amount, which is
\* greater than 0.
C10_GeneratedQuest ==
  last.op = "generate_quest" =>
    LET q == last.quest
    IN  /\ q.quest_type \in {1, 2}
        /\ 1 <= q.amount /\ q.amount <= 15
        /\ q.rarity = "Legendary" => q.amount <= 5
        /\ q.rarity = "Boss" => q.amount <= 1
        /\ q.reward = QuestBaseValue(q.rarity) * q.amount
        /\ q.reward > 0
        /\ q.progress = 0

\* A Legendary quest for which 20 was drawn asks for 5 and pays 2500.
C10_Witness ==
  /\ last.op = "generate_quest"
  /\ last.dr.amount = 20
  /\ last.quest.rarity = "Legendary" /\ last.quest.amount = 5
  /\ last.quest.reward = 2500

(***************************************************************************)
(* The clock and the nightly event (lines 841-853).                        *)
(***************************************************************************)
\* Bound: the hours a run of the clock lasts.
MaxHours == 96

\* advance_time() with moon the outcome of its draw randint(1, 100) <= 20.  The
\* draw is made when the new hour is in the night band and the event is still
\* Nothing (lines 848-850); the history keeps whether it was made and how many
\* draws the advances of the present night (hours 20..23 of one day) have made.
AdvanceTime(moon) ==
  /\ session = "running"
  /\ Casts < MaxHours
  /\ LET t == advance_time(current_hour, current_day, event, moon)
         drew == t.current_hour >= 20 /\ event = "Nothing"
         earlier == IF last.op = "advance_time" /\ current_hour >= 20
                    THEN last.night_draws ELSE 0
     IN  /\ current_hour' = t.current_hour
         /\ current_day' = t.current_day
         /\ event' = t.event
         /\ last' = [op |-> "advance_time", drew |-> drew,
                     night_draws |-> IF t.current_hour < 20 THEN 0
                                     ELSE earlier + (IF drew THEN 1 ELSE 0)]
  /\ UNCHANGED << ledgerVars, levelVars, flagVars, zoneVars, fileVars, discovery,
                  zone_quests, session, catch_log >>

\* The clock of a fresh game advanced hour by hour.
SpecClock == InitFresh(1) /\ [][\E moon \in BOOLEAN : AdvanceTime(moon)]_vars

\* C11: advance_time sets current_hour to (current_hour + 1) mod 24 and adds
\* exactly 1 to current_day if and only if the hour wrapped from 23 to 0;
\* current_hour stays in 0..23 and current_day never decreases.
C11_Clock ==
  /\ [](current_hour \in 0..23)
  /\ [][/\ current_hour' = (current_hour + 1) % 24
        /\ current_day' \in {current_day, current_day + 1}
        /\ (current_day' = current_day + 1) <=> (current_hour = 23 /\ current_hour' = 0)
        /\ current_day' >= current_day]_vars

\* The clock has wrapped into the second day.
C11_Witness ==
  last.op = "advance_time" /\ current_day = 1 /\ current_hour = 0

\* C12: an advance landing on an hour below 20 leaves the event Nothing, so Full
\* Moon implies an hour in 20..23; a Full Moon stays set on every advance that
\* lands on an hour of the night band.
C12_FullMoon ==
  /\ [](event = "Full Moon" => current_hour \in 20..23)
  /\ [][/\ current_hour' < 20 => event' = "Nothing"
        /\ (event = "Full Moon" /\ current_hour' >= 20) => event' = "Full Moon"]_vars

\* A Full Moon drawn on entering the night (one draw) is still set at hour 23,
\* on the second day.
C12_Witness ==
  /\ last.op = "advance_time" /\ last.night_draws = 1
  /\ event = "Full Moon" /\ current_hour = 23 /\ current_day = 1

\* C13: during one night advance_time makes the Full Moon draw at most once.
C13_OncePerNight ==
  last.op = "advance_time" => last.night_draws <= 1
(***************************************************************************)
(* Casting in every zone, at every time of day and in every season.        *)
(***************************************************************************)
\* Bound: the casts of one run.
MaxZoneCasts == 1

\* A session under way at the given clock in the zone of a choice of the zone
\* menu.  Every cast so far was lost; the player typed admin 12 times, bought
\* the Boat, the Submarine, the Torch and Submarine Upgrade 01, and chose the
\* zone.  The session in the Ancient Sea also landed the Ancient Key in the Abyss
\* Trench and bought Submarine Upgrade 02.
ZoneSession(choice, hour, day, ev) ==
  LET z == ZoneChoice(choice)
      keyed == z.zone = "Ancient Sea"
      key == CHOOSE it \in UNION {NormalCatches("Abyss Trench", f) :
                                    f \in Range(FISH_ABYSS_TRENCH)} :
               it.name = "Ancient Key" /\ it.weight = WeightRange(it.name, it.rarity).lo
      fresh == QuestManagerInit(<< >>, SeedDraws(1))
      r == check_level_up(0, get_xp_by_rarity(key.rarity))
  IN  /\ balance = Dollars(IF keyed THEN 8970100 ELSE 108970100)
      /\ inventory = IF keyed THEN << key >> ELSE << >>
      /\ discovery = IF keyed
                     THEN update_discovery(<< >>, key.zone, key.name, key.weight,
                                           ItemValue(key))
                     ELSE << >>
      /\ level = (IF keyed THEN r.level ELSE 0)
      /\ xp = (IF keyed THEN r.xp ELSE 0)
      /\ has_boat = TRUE /\ has_submarine = TRUE /\ has_torch = TRUE
      /\ has_abyss_trench_access = TRUE
      /\ has_ancient_key = keyed /\ has_ancient_sea_access = keyed
      /\ has_floating_key = FALSE
      /\ current_hour = hour /\ current_day = day /\ event = ev
      /\ current_zone = z.zone
      /\ current_fish_list = z.list
      /\ current_zone_catch_length = z.length
      /\ zone_quests = IF keyed
                       THEN update_quest_progress(fresh, key.zone, key.name, key.rarity)
                       ELSE fresh
      /\ save_file = StoredDocument(Memory)
      /\ snapshot = [game |-> Memory, intact |-> TRUE]
      /\ session = "running"
      /\ last = [op |-> "init"]
      /\ catch_log = << >>

\* The hours the sessions start at: one of the night (22..5), one of the day
\* (6..17) and one of the sunset (18..21); and the first days of the four seasons.
SessionHours == {3, 12, 18, 22}

\* A cast in the present zone.  Every outcome is offered with every item of the
\* zone: each entry of its catalog at its least weight, its boss and the
\* full-moon pool; the cast itself decides which of them it can land.
ZoneCast ==
  /\ \E h \in SessionHours : current_hour - h \in 0..(MaxZoneCasts - 1)
  /\ \E kind \in {"miss", "escape", "boss", "fish", "exotic"},
        it \in {i \in UNION {NormalCatches(current_zone, f) :
                               f \in Range(FishList(current_fish_list))} :
                  i.weight = WeightRange(i.name, i.rarity).lo}
                 \cup BossCatches(current_zone) \cup FullMoonCatches(current_zone),
        key \in (IF current_zone = "Sea" THEN BOOLEAN ELSE {FALSE}),
        moon \in (IF (current_hour + 1) % 24 >= 20 /\ event = "Nothing" THEN BOOLEAN
                  ELSE {FALSE}) :
        Fishing(kind, it, key, moon)

\* Sessions in each zone at each time of day of each season, and sessions under
\* a Full Moon at hour 22, casting.
SpecZones ==
  /\ \E choice \in {"1", "2", "3", "4", "5", "6"}, day \in {0, 7, 14, 21} :
       \/ \E hour \in SessionHours \ {22} : ZoneSession(choice, hour, day, "Nothing")
       \/ \E ev \in {"Nothing", "Full Moon"} : ZoneSession(choice, 22, day, ev)
  /\ [][ZoneCast]_vars

\* Whether the catalog entry f passes the gates at the hour and day: its
\* time_of_day set, if it has one, holds the time of day (Day for hours 6..17,
\* Sunset for 18..21, Night otherwise) and its seasons set, if it has one, the
\* season of index (day div 7) mod 4.
C14_Passes(f, hour, day) ==
  LET tod == IF hour \in 6..17 THEN "Day"
             ELSE IF hour \in 18..21 THEN "Sunset" ELSE "Night"
      season == SEASONS[((day \div 7) % 4) + 1]
  IN  /\ (f.time_of_day = {} \/ tod \in f.time_of_day)
      /\ (f.seasons = {} \/ season \in f.seasons)

\* C14: for the catalog of the zone a session is in, at every hour and day at which
\* a non-boss entry passes the gates, every entry the normal draw can return
\* passes them; and the catalog entry of every normal catch of a cast passes them
\* at the hour and day of the cast.
C14_Gates ==
  /\ \A hour \in 0..23, day \in 0..27 :
       LET list == FishList(current_fish_list)
       IN  (\E f \in Range(list) : f.rarity # "???" /\ C14_Passes(f, hour, day))
             => \A f \in Catchable(list, hour, day) : C14_Passes(f, hour, day)
  /\ [][(last'.op = "fishing" /\ last'.kind = "fish") =>
          LET list == FishList(current_fish_list)
              it == inventory'[Len(inventory')]
          IN  (\E f \in Range(list) :
                 f.rarity # "???" /\ C14_Passes(f, current_hour, current_day))
                => \A f \in Range(list) :
                     f.name = it.name => C14_Passes(f, current_hour, current_day)]_vars

\* A normal catch of an entry that has a time_of_day set.
C14_Witness ==
  /\ last.op = "fishing" /\ last.kind = "fish"
  /\ \E f \in Range(FishList(current_fish_list)) :
       f.name = inventory[Len(inventory)].name /\ f.time_of_day # {}

C16_Exotic ==
  LET pool == {f.name : f \in Range(EXOTIC_FISH_FULL_MOON)}
      exotic == pool \cup {f.name : f \in {g \in UNION {Range(ZONE_FISH_MAP[z]) : z \in ZONES} :
                                             g.rarity = "Exotic"}}
  IN  /\ \A i \in 1..Len(inventory) :
           inventory[i].rarity = "Exotic"
             => inventory[i].zone = "Bathyal" /\ inventory[i].name \in pool
      /\ \A z \in DOMAIN discovery : \A n \in DOMAIN discovery[z] :
           n \in exotic => z = "Bathyal" /\ n \in pool

\* A full-moon catch was landed and is in the inventory and the discovery book.
C16_Witness ==
  /\ last.op = "fishing" /\ last.kind = "exotic"
  /\ inventory[Len(inventory)].rarity = "Exotic"
  /\ "Bathyal" \in DOMAIN discovery
  /\ inventory[Len(inventory)].name \in DOMAIN discovery["Bathyal"]

\* C17: for the catalog of the zone a session is in, the set of entries the
\* weighted list holds is not empty at any hour and day; and it is not empty in
\* any state a cast is made from.
C17_NeverEmpty ==
  /\ \A hour \in 0..23, day \in 0..27 :
       Catchable(FishList(current_fish_list), hour, day) # {}
  /\ [](Catchable(FishList(current_fish_list), current_hour, current_day) # {})

\* A normal catch at night in the Ancient Sea, whose catalog holds entries of
\* weight 0.
C17_Witness ==
  /\ last.op = "fishing" /\ last.kind = "fish"
  /\ current_zone = "Ancient Sea" /\ current_hour = 4
  /\ \E f \in Range(FishList(current_fish_list)) : RarityWeight(f.rarity) = 0

\* C18: a cast whose boss encounter is lost changes none of inventory, xp,
\* level, discovery, quests, balance and the saved document, and logs no catch.
C18_BossEscapes ==
  [][(last'.op = "fishing" /\ last'.kind = "escape") =>
       /\ UNCHANGED << inventory, xp, level, discovery, zone_quests, balance, save_file >>
       /\ catch_log' = catch_log]_vars

\* A boss got away from a session that holds a catch and a saved document.
C18_Witness ==
  /\ last.op = "fishing" /\ last.kind = "escape"
  /\ inventory # << >> /\ save_file # NoFile
(***************************************************************************)
(* The skill checks (lines 594-633 and 976-1022).  The keyboard of a sweep  *)
(* is the sequence of what each of its 26 ticks reads: "enter" (a confirm: *)
(* Enter or the space bar), "other" (another key) or "none" (no key).      *)
(***************************************************************************)
\* The sweep without the one-tick tolerance (prev_i never consulted).
RECURSIVE sweep_exact(_, _, _, _, _)
sweep_exact(keys, target_start, target_end, i, prev_i) ==
  IF i >= 26 THEN [end |-> "time", tick |-> 26]
  ELSE IF keys[i + 1] = "enter"
  THEN [end |-> IF target_start <= i /\ i <= target_end THEN "hit" ELSE "miss",
        tick |-> i]
  ELSE sweep_exact(keys, target_start, target_end, i + 1, i)

\* The sweep that gives up one tick early: the last position is never read.
RECURSIVE sweep_short(_, _, _, _, _)
sweep_short(keys, target_start, target_end, i, prev_i) ==
  IF i >= 25 THEN [end |-> "time", tick |-> 26]
  ELSE IF keys[i + 1] = "enter"
  THEN LET in_zone == \/ (target_start <= i /\ i <= target_end)
                      \/ (prev_i >= 0 /\ target_start <= prev_i /\ prev_i <= target_end)
       IN  [end |-> IF in_zone THEN "hit" ELSE "miss", tick |-> i]
  ELSE sweep_short(keys, target_start, target_end, i + 1, i)

\* The loop `for i in range(len(bar))` from tick i on, prev_i as the loop holds
\* it: how the sweep ends ("hit", "miss", or "time" when the bar is swept without
\* a confirm) and at which tick.
RECURSIVE sweep(_, _, _, _, _)
sweep(keys, target_start, target_end, i, prev_i) ==
  IF i >= 26 THEN [end |-> "time", tick |-> 26]
  ELSE IF keys[i + 1] = "enter"
  THEN LET in_zone == \/ (target_start <= i /\ i <= target_end)
                      \/ (prev_i >= 0 /\ target_start <= prev_i /\ prev_i <= target_end)
       IN  [end |-> IF in_zone THEN "hit" ELSE "miss", tick |-> i]
  ELSE sweep(keys, target_start, target_end, i + 1, i)

\* A skill check whose window is drawn from 5..(26 - zone_length), one position
\* further than randint(5, len(bar) - zone_length - 1).
StartMinigame_wide(target_start, keys, run) ==
  /\ session = "running"
  /\ LET full_moon_event == current_zone = "Bathyal" /\ event = "Full Moon"
         zone_length == IF full_moon_event THEN 2 ELSE current_zone_catch_length
         target_end == target_start + zone_length - 1
         s == sweep(keys, target_start, target_end, 0, -1)
     IN  /\ target_start \in 5..(26 - zone_length)
         /\ last' = [op |-> "start_minigame", keys |-> keys, run |-> run,
                     target_start |-> target_start, target_end |-> target_end,
                     end |-> s.end, tick |-> s.tick,
                     ret |-> (s.end = "hit" /\ ~run)]
  /\ UNCHANGED << ledgerVars, levelVars, flagVars, clockVars, zoneVars, fileVars,
                  discovery, zone_quests, session, catch_log >>

\* start_minigame(full_moon_event) as start_fishing calls it (lines 961-969),
\* with the window drawn at target_start, the keyboard keys and run the outcome
\* randint(1, 100) <= 20 of the escape roll.
StartMinigame(target_start, keys, run) ==
  /\ session = "running"
  /\ LET full_moon_event == current_zone = "Bathyal" /\ event = "Full Moon"
         zone_length == IF full_moon_event THEN 2 ELSE current_zone_catch_length
         target_end == target_start + zone_length - 1
         s == sweep(keys, target_start, target_end, 0, -1)
     IN  /\ target_start \in 5..(26 - zone_length - 1)
         /\ last' = [op |-> "start_minigame", keys |-> keys, run |-> run,
                     target_start |-> target_start, target_end |-> target_end,
                     end |-> s.end, tick |-> s.tick,
                     ret |-> (s.end = "hit" /\ ~run)]
  /\ UNCHANGED << ledgerVars, levelVars, flagVars, clockVars, zoneVars, fileVars,
                  discovery, zone_quests, session, catch_log >>

\* The rounds that stop at the first round won instead of the first round lost.
RECURSIVE run_boss_minigame_rounds_any(_, _)
run_boss_minigame_rounds_any(plays, round) ==
  IF round > Len(plays) THEN [ret |-> FALSE, played |-> Len(plays)]
  ELSE LET p == plays[round]
           s == sweep(p.keys, p.target_start, p.target_start + 3 - 1, 0, -1)
       IN  IF s.end = "hit" THEN [ret |-> TRUE, played |-> round]
           ELSE run_boss_minigame_rounds_any(plays, round + 1)

\* run_boss_minigame_rounds() from the given round on (zone_len = 3); plays holds
\* the window and the keyboard of each of the rounds; played is the number of
\* rounds that were played.
RECURSIVE run_boss_minigame_rounds(_, _)
run_boss_minigame_rounds(plays, round) ==
  IF round > Len(plays) THEN [ret |-> TRUE, played |-> Len(plays)]
  ELSE LET p == plays[round]
           s == sweep(p.keys, p.target_start, p.target_start + 3 - 1, 0, -1)
       IN  IF s.end = "hit" THEN run_boss_minigame_rounds(plays, round + 1)
           ELSE [ret |-> FALSE, played |-> round]

\* run_boss_minigame_rounds() with its default 5 rounds (line 641).
RunBossMinigameRounds(plays) ==
  /\ session = "running"
  /\ current_zone \in DOMAIN ZONE_BOSS_MAP
  /\ Len(plays) = 5
  /\ \A r \in 1..5 : plays[r].target_start \in 5..(26 - 3 - 1)
  /\ LET b == run_boss_minigame_rounds(plays, 1)
     IN  last' = [op |-> "run_boss_minigame_rounds", plays |-> plays,
                  ret |-> b.ret, played |-> b.played]
  /\ UNCHANGED << ledgerVars, levelVars, flagVars, clockVars, zoneVars, fileVars,
                  discovery, zone_quests, session, catch_log >>

\* One cast, or one sequence of boss rounds, of a session in the Sea, the Lake
\* and the Abyss Trench, and of a session in Bathyal under a Full Moon.  A keyboard has confirms at the ticks
\* of cs and other keys at the ticks of os.  The skill check of a cast is played
\* with every window and a first confirm around the window, at the ends of the
\* bar or never, with or without another key before it and a second confirm
\* after it; the boss rounds are played won inside the window, won one tick after
\* it, lost before it, lost two ticks after it, or timed out.  After a skill
\* check the cast goes on as start_fishing does (lines 968-969): lost when the
\* check returned failure, and otherwise with a boss that escapes or is landed,
\* a Carp, a Starfish, a Lanternfish or an Ancient Key at its least weight, or a
\* full-moon catch.
SpecMinigame ==
  /\ \/ \E choice \in {"1", "2", "5"} : ZoneSession(choice, 12, 0, "Nothing")
     \/ ZoneSession("3", 22, 0, "Full Moon")
  /\ [][\/ /\ last.op = "start_minigame"
           /\ \E kind \in {"miss", "escape", "boss", "fish", "exotic"},
                 it \in {i \in UNION {NormalCatches(current_zone, f) :
                                        f \in Range(FishList(current_fish_list))} :
                           /\ i.name \in {"Carp", "Starfish", "Lanternfish", "Ancient Key"}
                           /\ i.weight = WeightRange(i.name, i.rarity).lo}
                          \cup BossCatches(current_zone)
                          \cup FullMoonCatches(current_zone) :
                /\ kind = "miss" <=> ~last.ret
                /\ Fishing(kind, it, FALSE, FALSE)
        \/ /\ last.op = "init"
           /\ LET Keys(cs, os) == [i \in 1..26 |-> IF i - 1 \in cs THEN "enter"
                                                    ELSE IF i - 1 \in os THEN "other"
                                                    ELSE "none"]
                  rounds == {[target_start |-> 5, keys |-> Keys({6, 9}, {2})],
                             [target_start |-> 22, keys |-> Keys({25}, {})],
                             [target_start |-> 10, keys |-> Keys({9, 11}, {})],
                             [target_start |-> 10, keys |-> Keys({14}, {12})],
                             [target_start |-> 7, keys |-> Keys({}, {8})]}
              IN  \/ \E target_start \in 5..23, d \in -2..8, noisy \in BOOLEAN, run \in BOOLEAN :
                       LET c == IF d = 7 THEN 0 ELSE IF d = 8 THEN 25 ELSE target_start + d
                       IN  \/ StartMinigame(target_start,
                                            IF noisy THEN Keys({c, c + 2}, {c - 1})
                                            ELSE Keys({c}, {}), run)
                           \/ StartMinigame(target_start, Keys({}, {c}), run)
                  \/ \E p1 \in rounds, p2 \in rounds, p3 \in rounds, p4 \in rounds,
                        p5 \in rounds :
                       RunBossMinigameRounds(<< p1, p2, p3, p4, p5 >>)]_vars

\* The tick of the first confirm of a keyboard, 26 when it has none.
FirstConfirm(keys) ==
  IF \A j \in 1..26 : keys[j] # "enter" THEN 26
  ELSE (CHOOSE j \in 1..26 : keys[j] = "enter" /\ \A k \in 1..(j - 1) : keys[k] # "enter") - 1

\* C19: run_boss_minigame_rounds returns success exactly when each of its 5
\* rounds ends with a confirm inside that round's target window (a confirm counts
\* at the marker's current or immediately prior position, as in every skill
\* check); the first round that ends in a miss or a time-out ends the sequence
\* with failure, and no later round is played.
C19_BossRounds ==
  last.op = "run_boss_minigame_rounds" =>
    LET won(r) == LET p == last.plays[r]
                      i == FirstConfirm(p.keys)
                      inside(t) == p.target_start <= t /\ t <= p.target_start + 2
                  IN  i < 26 /\ (inside(i) \/ (i >= 1 /\ inside(i - 1)))
        lost == {r \in 1..5 : ~won(r)}
    IN  /\ last.ret <=> lost = {}
        /\ lost = {} => last.played = 5
        /\ lost # {} => /\ ~last.ret
                        /\ last.played \in lost
                        /\ \A r \in lost : last.played <= r

\* The sequence lost in its third round, after two rounds won and before a round
\* whose keyboard would have won.
C19_Witness ==
  /\ last.op = "run_boss_minigame_rounds"
  /\ ~last.ret
  /\ last.played = 3
  /\ last.plays[1].target_start = 22
  /\ last.plays[2].target_start = 5
  /\ last.plays[3].target_start = 7
  /\ last.plays[4].target_start = 22

\* C20: in start_minigame the first confirm, at tick i, ends the check at once:
\* it is a Hit exactly when i is inside [target_start, target_end] or i >= 1 and
\* i - 1 is inside it, otherwise a Miss that returns failure with no further
\* sweeping; the check returns success only after a Hit whose escape roll did
\* not fire.
C20_FirstConfirm ==
  last.op = "start_minigame" =>
    LET i == FirstConfirm(last.keys)
        inside(t) == last.target_start <= t /\ t <= last.target_end
    IN  /\ i < 26 =>
              /\ last.tick = i
              /\ last.end \in {"hit", "miss"}
              /\ last.end = "hit" <=> (inside(i) \/ (i >= 1 /\ inside(i - 1)))
              /\ last.end = "miss" => ~last.ret
        /\ last.ret => (i < 26 /\ last.end = "hit" /\ ~last.run)
        /\ (i < 26 /\ last.end = "hit" /\ ~last.run) => last.ret

\* A check won by a confirm one tick after the window, with a later confirm on
\* the keyboard, in a zone whose window is 5 positions long.
C20_Witness ==
  /\ last.op = "start_minigame"
  /\ last.target_end = last.target_start + 4
  /\ last.tick = last.target_end + 1
  /\ last.end = "hit"
  /\ last.ret
  /\ \E j \in (last.tick + 2)..26 : last.keys[j] = "enter"

\* C21: every skill check reaches exactly one terminal outcome (Hit, Miss, Escape
\* or TimedOut) within at most 26 ticks whatever the keyboard, and it ends as
\* TimedOut, a failure, exactly when the marker has swept all 26 positions with
\* no confirm read.
C21_OneOutcome ==
  last.op = "start_minigame" =>
    LET swept == IF last.end = "time" THEN last.tick ELSE last.tick + 1
        outcomes == {o \in {"Hit", "Miss", "Escape", "TimedOut"} :
                       \/ (o = "Hit" /\ last.end = "hit" /\ ~last.run)
                       \/ (o = "Escape" /\ last.end = "hit" /\ last.run)
                       \/ (o = "Miss" /\ last.end = "miss")
                       \/ (o = "TimedOut" /\ last.end = "time")}
    IN  /\ Cardinality(outcomes) = 1
        /\ swept \in 1..26
        /\ last.end = "time" <=> FirstConfirm(last.keys) = 26
        /\ last.end = "time" => (swept = 26 /\ ~last.ret)
        /\ last.ret <=> outcomes = {"Hit"}

\* A check that timed out although a key that is no confirm was pressed.
C21_Witness ==
  /\ last.op = "start_minigame"
  /\ last.end = "time"
  /\ ~last.ret
  /\ \E j \in 1..26 : last.keys[j] = "other"

\* C30: in start_minigame and in run_boss_minigame_rounds, for every window width
\* used (2, 3, 4 or 5) the target window lies inside the 26-position track with
\* room on both sides: 5 <= target_start, target_end = target_start + width - 1
\* <= 24, and the range target_start is drawn from is never empty.
C30_WindowInside ==
  LET zone_length == IF current_zone = "Bathyal" /\ event = "Full Moon" THEN 2
                     ELSE current_zone_catch_length
  IN  /\ zone_length \in {2, 3, 4, 5}
      /\ 5..(26 - zone_length - 1) # {}
      /\ 5..(26 - 3 - 1) # {}
      /\ last.op = "start_minigame" =>
           /\ 5 <= last.target_start
           /\ last.target_end = last.target_start + zone_length - 1
           /\ last.target_end <= 24
      /\ last.op = "run_boss_minigame_rounds" =>
           \A r \in 1..5 : /\ 5 <= last.plays[r].target_start
                           /\ last.plays[r].target_start + 3 - 1 <= 24

\* A check whose window of 5 positions ends at position 24.
C30_Witness ==
  /\ last.op = "start_minigame"
  /\ last.target_start = 20
  /\ last.target_end = 24

\* C22: when the current zone is Bathyal and the event is Full Moon, every bite
\* takes the override path: no normal catch, no boss encounter, a skill check
\* whose target window is 2 positions wide, and a successful cast adds exactly
\* one item whose name is in the fixed pool, whose rarity is Exotic and whose
\* weight is in 1000..100000 kg.
C22_FullMoonOverride ==
  [][(current_zone = "Bathyal" /\ event = "Full Moon") =>
       /\ last'.op = "start_minigame" =>
            last'.target_end - last'.target_start + 1 = 2
       /\ last'.op = "fishing" =>
            /\ last'.kind \in {"miss", "exotic"}
            /\ last'.kind = "miss" => inventory' = inventory
            /\ last'.kind = "exotic" =>
                 /\ Len(inventory') = Len(inventory) + 1
                 /\ SubSeq(inventory', 1, Len(inventory)) = inventory
                 /\ LET it == inventory'[Len(inventory')]
                    IN  /\ \E i \in 1..Len(EXOTIC_FISH_FULL_MOON) :
                             it.name = EXOTIC_FISH_FULL_MOON[i].name
                        /\ it.name \in {"Phantom Shark", "Shadowfin", "Abyssal Ghost"}
                        /\ it.rarity = "Exotic"
                        /\ it.weight \in 10000..1000000]_vars

\* A cast under the Full Moon in Bathyal landed an item of 100000 kg.
C22_Witness ==
  /\ last.op = "fishing" /\ last.kind = "exotic"
  /\ current_zone = "Bathyal" /\ event = "Full Moon" /\ current_hour = 23
  /\ Len(inventory) = 1
  /\ inventory[1].weight = 1000000

\* C25: a sale that is rejected leaves inventory, balance and the saved document
\* unchanged: for every line that is neither 'all' nor parseable as
\* 'sell x<integer> <name>', and for every 'sell x<N> <name>' where the inventory
\* holds fewer than N entries of that name.
C25_RejectedSale ==
  [][last'.op = "sell_fish" =>
       LET option == last'.option
           p == ParseSell(option)
           parseable == StartsWithSellX(option) /\ p.ok
           held == Cardinality({i \in 1..Len(inventory) : inventory[i].name = p.name})
           rejected == \/ (option # << "a", "l", "l" >> /\ ~parseable)
                       \/ (parseable /\ held < p.amount)
       IN  rejected => /\ inventory' = inventory
                       /\ balance' = balance
                       /\ save_file' = save_file]_vars

\* A sale of two was refused while one item of that name, a saved document and
\* another item were there.
C25_Witness ==
  /\ last.op = "sell_fish"
  /\ last.option = << "s", "e", "l", "l", " ", "x", "2", " ", "T", "i", "l", "a", "p", "i", "a" >>
  /\ last.path = "short"
  /\ Len(inventory) = 2
  /\ Cardinality({i \in 1..2 : inventory[i].name = "Tilapia"}) = 1
  /\ save_file # NoFile

(***************************************************************************)
(* Whole sessions at the main menu: casting, the zone menu, selling, the   *)
(* shop, the quest screen and the admin command.                           *)
(***************************************************************************)
\* Bound: the admin grants a session takes while its balance is below
\* MaxGrants * 10000000.
MaxGrants == 1

\* Bound: the casts of one session.
MaxGameCasts == 1

\* Sessions of a fresh game (balance 100, no flag, in the Lake at hour 0) and of a
\* game under way in the Abyss Trench at hour 12 with four items bought.  A
\* session casts at most MaxGameCasts times, each cast lost or landing the
\* Largemouth Bass or the Ancient Key at its least weight; it stays in its zone,
\* types three lines at the sell prompt,
\* types every item number of the shop, 0 and one beyond the list (no item it
\* holds is asked for again), asks to finish the first two quests of the zone,
\* the slot refilled with a quest for 20 Legendary catches, and types admin while
\* the balance is below MaxGrants * 10000000.
SpecGame ==
  /\ InitFresh(1) \/ ZoneSession("5", 12, 0, "Nothing")
  /\ [][\/ /\ current_day = 0
           /\ \E h \in {0, 12} : current_hour - h \in 0..(MaxGameCasts - 1)
           /\ \E kind \in {"miss", "fish"},
                 it \in {i \in UNION {NormalCatches(current_zone, f) :
                                        f \in Range(FishList(current_fish_list))} :
                           /\ i.name \in {"Largemouth Bass", "Ancient Key"}
                           /\ i.weight = WeightRange(i.name, i.rarity).lo} :
                Fishing(kind, it, FALSE, FALSE)
        \/ \E option \in {<< "a", "l", "l" >>,
                          << "s", "e", "l", "l", " ", "x", "1", " ", "L", "a", "r", "g",
                             "e", "m", "o", "u", "t", "h", " ", "B", "a", "s", "s" >>,
                          << "s", "e", "l", "l", " ", "x", "2", " ", "L", "a", "r", "g",
                             "e", "m", "o", "u", "t", "h", " ", "B", "a", "s", "s" >>} :
             SellFish(option)
        \/ \E n \in 0..(Len(SHOP_ITEMS) + 1) :
             /\ n \in 1..Len(SHOP_ITEMS) =>
                  ~<< has_boat, has_submarine, has_torch, has_abyss_trench_access,
                      has_ancient_sea_access >>[n]
             /\ ShowShop(n)
        \/ \E quest_index \in {0, 1} :
             ShowQuestDetail(quest_index, [quest_type |-> 2, amount |-> 20, fish |-> 0,
                                           rarity |-> "Legendary"])
        \/ /\ MoneyLess(balance, Dollars(MaxGrants * 10000000))
           /\ Admin]_vars

\* Sessions of the same two games at the zone menu and in the shop: a session
\* picks every choice of the zone menu and one beyond it, types every item number
\* of the shop, 0 and one beyond the list (no item it holds is asked for again),
\* types admin while the balance is below MaxGrants * 10000000, and casts at most
\* MaxGameCasts times, each cast lost or landing the Ancient Key.
SpecZoneMenu ==
  /\ InitFresh(1) \/ ZoneSession("5", 12, 0, "Nothing")
  /\ [][\/ \E choice \in {"1", "2", "3", "4", "5", "6", "7"} : ChooseZone(choice)
        \/ \E n \in 0..(Len(SHOP_ITEMS) + 1) :
             /\ n \in 1..Len(SHOP_ITEMS) =>
                  ~<< has_boat, has_submarine, has_torch, has_abyss_trench_access,
                      has_ancient_sea_access >>[n]
             /\ ShowShop(n)
        \/ /\ MoneyLess(balance, Dollars(MaxGrants * 10000000))
           /\ Admin
        \/ /\ current_day = 0
           /\ \E h \in {0, 12} : current_hour - h \in 0..(MaxGameCasts - 1)
           /\ \E kind \in {"miss", "fish"},
                 it \in {i \in UNION {NormalCatches(current_zone, f) :
                                        f \in Range(FishList(current_fish_list))} :
                           /\ i.name = "Ancient Key"
                           /\ i.weight = WeightRange(i.name, i.rarity).lo} :
                Fishing(kind, it, FALSE, FALSE)]_vars

\* C23: the balance is never negative after any sequence of catches, sales (all
\* or partial, with any parsed amount), shop purchases, quest payouts and admin
\* grants starting from the initial balance of 100.
C23_BalanceNonNegative == balance.d >= 0 /\ balance.m >= 0 /\ ~MoneyLess(balance, Dollars(0))

\* A purchase has taken the balance down to exactly 100.
C23_Witness ==
  /\ last.op = "show_shop"
  /\ last.choice = 4
  /\ last.balance = Dollars(10000100)
  /\ balance = Dollars(100)
  /\ has_abyss_trench_access

\* C24: a shop purchase that is rejected (invalid item number, balance below the
\* item's price, Submarine Upgrade 02 without the Ancient Key or without
\* Submarine Upgrade 01) leaves the balance, every unlock flag and the saved
\* document unchanged; an accepted purchase deducts exactly the item's price and
\* sets exactly that item's flag.
C24_Purchase ==
  [][last'.op = "show_shop" =>
       LET n == last'.choice
           flags == << has_boat, has_submarine, has_torch, has_abyss_trench_access,
                       has_ancient_sea_access >>
           flags_after == << has_boat', has_submarine', has_torch',
                             has_abyss_trench_access', has_ancient_sea_access' >>
           prices == << 25000, 1000000, 5000, 10000000, 100000000 >>
           rejected == \/ n \notin 1..5
                       \/ MoneyLess(balance, Dollars(prices[n]))
                       \/ (n = 5 /\ ~has_ancient_key)
                       \/ (n = 5 /\ ~has_abyss_trench_access)
       IN  IF rejected
           THEN /\ balance' = balance
                /\ flags_after = flags
                /\ has_ancient_key' = has_ancient_key
                /\ has_floating_key' = has_floating_key
                /\ save_file' = save_file
           ELSE /\ MoneyAdd(balance', Dollars(prices[n])) = balance
                /\ SHOP_ITEMS[n].price = prices[n]
                /\ flags_after = [flags EXCEPT ![n] = TRUE]
                /\ has_ancient_key' = has_ancient_key
                /\ has_floating_key' = has_floating_key]_vars

\* Submarine Upgrade 02 was refused to a player who could pay for it and holds
\* Submarine Upgrade 01 but not the Ancient Key.
C24_Witness ==
  /\ last.op = "show_shop"
  /\ last.choice = 5
  /\ ~MoneyLess(balance, Dollars(100000000))
  /\ has_abyss_trench_access
  /\ ~has_ancient_key
  /\ ~has_ancient_sea_access

\* C26: finishing a completed quest removes from the inventory the caught items
\* that counted toward it, without crediting their sale value.
C26_Consumed ==
  [][(/\ last'.op = "show_quest_detail"
      /\ zone_quests' # zone_quests
      /\ LET q == get_quests_for_zone(zone_quests, current_zone)[last'.quest_index + 1]
         IN  \E i \in 1..Len(inventory) :
               /\ inventory[i].zone = current_zone
               /\ \/ (q.quest_type = 1 /\ inventory[i].name = q.target_fish)
                  \/ (q.quest_type = 2 /\ inventory[i].rarity = q.rarity))
     => Len(inventory') < Len(inventory)]_vars

\* C27: an out-of-range choice in a menu aborts with no state mutated: choose_zone
\* with a choice outside 1..6 leaves current_zone, current_fish_list and
\* current_zone_catch_length unchanged, as does choosing a zone whose unlock flag
\* is false.
C27_ZoneMenuAborts ==
  [][last'.op = "choose_zone" =>
       LET c == last'.choice
           locked == \/ (c = "1" /\ ~has_boat)
                     \/ (c = "3" /\ ~has_submarine)
                     \/ (c = "4" /\ ~has_torch)
                     \/ (c = "5" /\ ~has_abyss_trench_access)
                     \/ (c = "6" /\ ~has_ancient_sea_access)
       IN  (c \notin {"1", "2", "3", "4", "5", "6"} \/ locked) =>
              /\ current_zone' = current_zone
              /\ current_fish_list' = current_fish_list
              /\ current_zone_catch_length' = current_zone_catch_length]_vars

\* C28: after any sequence of actions from a fresh game, current_zone is a member
\* of get_unlocked_zones(), which is Lake plus exactly the zones whose unlock flag
\* is true (exactly [Lake] when all flags are false); current_fish_list is that
\* zone's catalog and current_zone_catch_length is that zone's window width.
C28_ZoneUnlocked ==
  /\ current_zone \in get_unlocked_zones
  /\ get_unlocked_zones =
       {"Lake"} \cup {z \in {"Sea", "Bathyal", "Mystic Spring", "Abyss Trench", "Ancient Sea"} :
                        \/ (z = "Sea" /\ has_boat)
                        \/ (z = "Bathyal" /\ has_submarine)
                        \/ (z = "Mystic Spring" /\ has_torch)
                        \/ (z = "Abyss Trench" /\ has_abyss_trench_access)
                        \/ (z = "Ancient Sea" /\ has_ancient_sea_access)}
  /\ (~has_boat /\ ~has_submarine /\ ~has_torch /\ ~has_abyss_trench_access
        /\ ~has_ancient_sea_access) => get_unlocked_zones = {"Lake"}
  /\ FishList(current_fish_list) = ZONE_FISH_MAP[current_zone]
  /\ current_zone_catch_length =
       (CASE current_zone = "Sea" -> 3 [] current_zone = "Lake" -> 5
          [] current_zone = "Bathyal" -> 5 [] current_zone = "Mystic Spring" -> 5
          [] current_zone = "Abyss Trench" -> 4 [] current_zone = "Ancient Sea" -> 3)

\* The player has bought Submarine Upgrade 02 and moved to the Ancient Sea.
C28_Witness ==
  /\ last.op = "choose_zone" /\ last.choice = "6"
  /\ has_ancient_sea_access /\ current_zone = "Ancient Sea"
  /\ current_zone_catch_length = 3

\* C29: below the level cap no experience is lost by levelling: after any
\* sequence of gains from level 0 and xp 0 that leaves level < 100, the total
\* experience gained equals the remaining xp plus the sum of 100 + k*100 over
\* every level k in 0..level-1.
C29_NothingLost ==
  (last.op = "gain" /\ level < 100) =>
     last.total = xp + RequirementSum(0, level)

\* Gains have taken the game to level 99 with experience left over.
C29_Witness ==
  /\ last.op = "gain"
  /\ level = 99
  /\ xp > 0
  /\ last.total = xp + 495000

\* C31: a Fish action adds at most one entry to the inventory, and adds one only
\* if the skill check of that cast returned success (a confirm inside the window
\* with no escape); a cast whose skill check ends in Miss, Escape or TimedOut
\* leaves inventory, xp, level, discovery and quest progress unchanged.
C31_SkillCheckGates ==
  [][(last.op = "start_minigame" /\ last'.op = "fishing") =>
       /\ Len(inventory') \in {Len(inventory), Len(inventory) + 1}
       /\ SubSeq(inventory', 1, Len(inventory)) = inventory
       /\ Len(inventory') = Len(inventory) + 1 =>
            (last.ret /\ last.end = "hit" /\ ~last.run)
       /\ (last.end \in {"miss", "time"} \/ (last.end = "hit" /\ last.run)) =>
            /\ inventory' = inventory
            /\ xp' = xp
            /\ level' = level
            /\ discovery' = discovery
            /\ zone_quests' = zone_quests]_vars

\* A cast in the Sea whose skill check was won has landed a Starfish.
C31_Witness ==
  /\ last.op = "fishing" /\ last.kind = "fish"
  /\ current_zone = "Sea"
  /\ current_hour = 13
  /\ Len(inventory) = 1
  /\ inventory[1].name = "Starfish"

\* C32: a partial sale 'sell x<N> <name>' removes at most N inventory entries,
\* for every integer N the command parser accepts (zero and negative values
\* included); the removed entries all have that name and the balance grows by
\* exactly the rounded sum of weight * price of the removed entries.  (An N
\* below zero is read as allowing no removal.)
C32_PartialSale ==
  [][(/\ last'.op = "sell_fish"
      /\ StartsWithSellX(last'.option)
      /\ ParseSell(last'.option).ok) =>
       LET p == ParseSell(last'.option)
       IN  \E removed \in SUBSET (1..Len(inventory)) :
             LET idx == SelectSeq([i \in 1..Len(inventory) |-> i],
                                  LAMBDA i : i \in removed)
                 sold == [k \in 1..Len(idx) |-> inventory[idx[k]]]
             IN  /\ Cardinality(removed) <= (IF p.amount > 0 THEN p.amount ELSE 0)
                 /\ \A i \in removed : inventory[i].name = p.name
                 /\ inventory' = Without(inventory, removed, 1)
                 /\ balance' = MoneyAdd(balance, Round2(C4_Sum(sold)))]_vars

\* C33: one catch reported through update_quest_progress(zone, name, rarity)
\* raises the progress of any single quest by at most 1, raises it only for
\* quests of that zone that match (kind 1 by target name, kind 2 by rarity), and
\* leaves the quests of every other zone and every non-matching quest unchanged;
\* a boss catch (rarity '???') or a full-moon Exotic catch advances no
\* rarity-class quest.
C33_QuestStep ==
  [][(last'.op = "fishing" /\ last'.kind \in {"fish", "boss", "exotic"}) =>
       LET it == inventory'[Len(inventory')]
       IN  /\ DOMAIN zone_quests' = DOMAIN zone_quests
           /\ \A z \in DOMAIN zone_quests :
                /\ Len(zone_quests'[z]) = Len(zone_quests[z])
                /\ z # current_zone => zone_quests'[z] = zone_quests[z]
           /\ \A i \in 1..Len(zone_quests[current_zone]) :
                LET q == zone_quests[current_zone][i]
                    after == zone_quests'[current_zone][i]
                    matches == \/ q.quest_type = 1 /\ q.target_fish = it.name
                               \/ q.quest_type = 2 /\ q.rarity = it.rarity
                IN  /\ after.progress \in {q.progress, q.progress + 1}
                    /\ [after EXCEPT !.progress = q.progress] = q
                    /\ ~matches => after = q
                    /\ (last'.kind \in {"boss", "exotic"} /\ q.quest_type = 2)
                         => after = q]_vars

\* A catch that advanced a quest for its name and a quest for its rarity, in a
\* zone with a quest it left alone and with quests of its rarity in other zones.
C33_Witness ==
  /\ last.op = "fishing" /\ last.kind = "fish"
  /\ LET it == inventory[Len(inventory)]
         quests == zone_quests[current_zone]
     IN  /\ \E i \in 1..Len(quests) :
               /\ quests[i].quest_type = 1 /\ quests[i].target_fish = it.name
               /\ quests[i].progress = 1
         /\ \E i \in 1..Len(quests) :
               /\ quests[i].quest_type = 2 /\ quests[i].rarity = it.rarity
               /\ quests[i].progress = 1
         /\ \E i \in 1..Len(quests) : quests[i].progress = 0
         /\ \E z \in DOMAIN zone_quests \ {current_zone} :
              \E i \in 1..Len(zone_quests[z]) :
                /\ zone_quests[z][i].quest_type = 2
                /\ zone_quests[z][i].rarity = it.rarity
                /\ zone_quests[z][i].progress = 0

\* C34: the updated state is durably committed at the end of every
\* state-changing action: whenever control is back at the main menu after a Fish,
\* Sell, Shop, Quest or admin action that changed a persisted field, the last
\* saved document holds the in-memory value of every persisted field, including
\* currentHour, currentDay and event after the clock advance that follows a cast.
C34_Committed ==
  [][(/\ last'.op \in {"fishing", "sell_fish", "show_shop", "show_quest_detail", "admin"}
      /\ Memory' # Memory)
       => save_file' = StoredDocument(Memory')]_vars

\* C35: a successful boss encounter adds exactly one inventory entry for that
\* cast (the zone's boss, rarity '???', price 1000, weight in 1000..10000, zone =
\* current zone), awards the boss catalog entry's xp once, increments the boss's
\* discovery count by exactly 1 and saves; no second item is added by the normal
\* catch path of the same cast.
C35_BossCatch ==
  [][(last'.op = "fishing" /\ last'.kind = "boss") =>
       LET boss == ZONE_BOSS_MAP[current_zone]
           it == inventory'[Len(inventory')]
       IN  /\ Len(inventory') = Len(inventory) + 1
           /\ SubSeq(inventory', 1, Len(inventory)) = inventory
           /\ it.name = boss /\ it.rarity = "???" /\ it.price = 100000
           /\ it.weight \in 10000..100000 /\ it.weight % 10 = 0
           /\ it.zone = current_zone
           /\ \E f \in Range(FishList(current_fish_list)) :
                /\ f.name = boss /\ f.rarity = "???"
                /\ [level |-> level', xp |-> xp'] = check_level_up(level, xp + f.xp)
           /\ EntryOf(discovery', current_zone, boss).count
                = EntryOf(discovery, current_zone, boss).count + 1
           /\ \A z \in DOMAIN discovery' :
                \A n \in DOMAIN discovery'[z] :
                  << z, n >> # << current_zone, boss >>
                    => HasEntry(discovery, z, n) /\ discovery'[z][n] = discovery[z][n]
           /\ save_file' = StoredDocument([Memory' EXCEPT !.current_hour = current_hour,
                                                          !.current_day = current_day,
                                                          !.event = event])]_vars

\* The Kraken landed in the Sea: one item of 1000 kg held, its discovery entry
\* counting 1, and the levels its 7000 xp pays for gained.
C35_Witness ==
  /\ last.op = "fishing" /\ last.kind = "boss" /\ current_zone = "Sea"
  /\ Len(inventory) = 1
  /\ inventory[1].name = "Kraken" /\ inventory[1].weight = 10000
  /\ EntryOf(discovery, "Sea", "Kraken").count = 1
  /\ [level |-> level, xp |-> xp] = check_level_up(0, 7000)
  /\ level > 1

\* The sum of the counts of the entries of the log d at the given (zone, name)
\* pairs.
RECURSIVE C36_SumOver(_, _)
C36_SumOver(d, pairs) ==
  IF pairs = {} THEN 0
  ELSE LET p == CHOOSE q \in pairs : TRUE
       IN  d[p[1]][p[2]].count + C36_SumOver(d, pairs \ {p})

\* The sum of all the counts of the log d.
C36_Total(d) ==
  C36_SumOver(d, UNION {{<< z, n >> : n \in DOMAIN d[z]} : z \in DOMAIN d})

\* C36: discovery and inventory stay consistent: after any sequence of casts and
\* sales from a fresh game, a discovery entry exists for (zone, name) if and only
\* if that creature was caught in that zone at least once, its count equals the
\* number of such catches, and the inventory size equals the sum of all discovery
\* counts minus the number of entries sold (no step changes the difference of the
\* two by anything but the entries it sells, and a fresh game has neither).
C36_Consistent ==
  /\ [](/\ \A z \in ZONES :
             \A n \in EntryNames(discovery, z) \cup {c.name : c \in Range(catch_log)} :
               /\ HasEntry(discovery, z, n) <=> CatchesOf(z, n) # {}
               /\ EntryOf(discovery, z, n).count = Cardinality(CatchesOf(z, n))
         /\ DOMAIN discovery \subseteq ZONES
         /\ Len(inventory) <= C36_Total(discovery)
         /\ last.op = "init" => Len(inventory) = 0 /\ C36_Total(discovery) = 0)
  /\ [][/\ last'.op = "fishing" =>
             C36_Total(discovery') - Len(inventory') = C36_Total(discovery) - Len(inventory)
        /\ last'.op = "sell_fish" =>
             /\ discovery' = discovery
             /\ Len(inventory') <= Len(inventory)]_vars

\* Two Carp were caught and one of them sold: the entry counts 2 and one item is
\* held.
C36_Witness ==
  /\ last.op = "sell_fish" /\ last.path = "some"
  /\ EntryOf(discovery, "Lake", "Carp").count = 2
  /\ Cardinality(CatchesOf("Lake", "Carp")) = 2
  /\ Len(inventory) = 1

\* C37: after any sequence of actions from a fresh game, has_ancient_sea_access
\* implies has_ancient_key and has_abyss_trench_access, has_ancient_key is true
\* only if an 'Ancient Key' was caught, and no unlock flag or key flag ever goes
\* from true back to false.
C37_Flags ==
  /\ [](/\ has_ancient_sea_access => (has_ancient_key /\ has_abyss_trench_access)
        /\ has_ancient_key => \E i \in 1..Len(catch_log) : catch_log[i].name = "Ancient Key")
  /\ [][/\ has_boat => has_boat'
        /\ has_submarine => has_submarine'
        /\ has_torch => has_torch'
        /\ has_abyss_trench_access => has_abyss_trench_access'
        /\ has_ancient_sea_access => has_ancient_sea_access'
        /\ has_ancient_key => has_ancient_key'
        /\ has_floating_key => has_floating_key']_vars

\* Submarine Upgrade 02 was just bought: the four other items are held, and the
\* Ancient Key was caught in the Abyss Trench and is still held.
C37_Witness ==
  /\ last.op = "show_shop" /\ last.choice \in 1..Len(SHOP_ITEMS)
  /\ SHOP_ITEMS[last.choice].name = "Submarine Upgrade 02"
  /\ has_ancient_sea_access /\ has_ancient_key /\ has_abyss_trench_access
  /\ has_boat /\ has_submarine /\ has_torch
  /\ \E i \in 1..Len(catch_log) :
       catch_log[i].name = "Ancient Key" /\ catch_log[i].zone = "Abyss Trench"
=============================================================================
